---- MODULE Spec2Model ----
(***************************************************************************)
(* Strategy Execution Engine of the SniperLab bot worker.                  *)
(*                                                                         *)
(* Two builds of the worker's Trade API live in the repository:            *)
(*   - the retrying build (src/unnamed/part_003): createTradeApi with      *)
(*     retrySwap, amount halving and exponential backoff (SpecRetry);      *)
(*   - the gated build (src/next-sniper/src/workers/bot-worker.js):         *)
(*     createTradeApi with the pausedWallets balance gate and the          *)
(*     balanceUpdate messages (SpecGate).                                  *)
(*                                                                         *)
(* Decimal amounts (JavaScript numbers) are represented as integers in     *)
(* units of 10^-AmountDigits; arithmetic on them is exact.                 *)
(***************************************************************************)
EXTENDS Integers, Sequences, FiniteSets, TLC

\* ------------------------------------------------------------------ bounds
\* number of fractional decimal digits carried by a requested amount
AmountDigits == 7
\* number of buy/sell calls a strategy makes in one invocation (gated build)
MaxCalls == 2

\* --------------------------------------------------------------- helpers
RECURSIVE Pow10(_)
Pow10(n) == IF n = 0 THEN 1 ELSE 10 * Pow10(n - 1)

RECURSIVE Pow2(_)
Pow2(n) == IF n = 0 THEN 1 ELSE 2 * Pow2(n - 1)

Abs(x) == IF x < 0 THEN -x ELSE x

\* 0.5 as a requested decimal amount
Half == 5 * Pow10(AmountDigits - 1)

\* String.prototype.startsWith on character sequences
StartsWith(s, p) == Len(s) >= Len(p) /\ SubSeq(s, 1, Len(p)) = p

Mainnet == <<"m", "a", "i", "n", "n", "e", "t">>
MainnetBeta == Mainnet \o <<"-", "b", "e", "t", "a">>
Devnet == <<"d", "e", "v", "n", "e", "t">>
Testnet == <<"t", "e", "s", "t", "n", "e", "t">>
Networks == {MainnetBeta, Mainnet, Devnet, Testnet}

\* ctx.token as sent by the host; decimals is absent when no token precision is known
TokenChoices == {[address |-> "mint"], [address |-> "mint", decimals |-> 2], [address |-> "mint", decimals |-> 6]}

\* amounts a strategy passes to buy/sell in the retrying build
RetryAmounts == {0, 4, 5, 15, 18, 30, Half, 3 * Half}

\* Error messages a venue executor raises, as the set of lower-cased phrases
\* the message text contains.
ErrAmountTooLow == {"amount", "too low"}
ErrPoolNotFound == {"pool not found"}
ErrNoQuote == {"failed to get quote"}
ErrSlippageTooLow == {"slippage", "too low"}
ErrMessages == {ErrAmountTooLow, ErrPoolNotFound, ErrNoQuote, ErrSlippageTooLow}

VARIABLES
  ctx,          \* workerContext of the invocation: network, token decimals, poolId, walletBalances
  pc,           \* retrying build: position of the one TradeRequest being executed
  side,         \* retrying build: "buy" | "sell" of the request
  requested,    \* retrying build: decimal amount the strategy asked for
  amountBn,     \* retrying build: the closure variable amountBn of buy/sell
  fn,           \* retrying build: the callable handed to retrySwap (with its optional amountBn property)
  attempt,      \* retrySwap: attempt
  delayMs,      \* retrySwap: delayMs
  lastErr,      \* retrySwap: lastErr
  venueCalls,   \* retrying build: invocations of a venue executor, in order
  delays,       \* retrying build: setTimeout delays awaited, in order
  result,       \* retrying build: what buy/sell returned or threw
  epc,          \* retrying build: position of the venue executor called by the current attempt
  steps,        \* retrying build: requests the executor has awaited in that call, with what they produced
  pausedWallets,\* gated build: module-level pausedWallets map
  calls,        \* gated build: buy/sell calls of the invocation, in order
  msgs,         \* messages posted to the host (log, error, balanceUpdate) it has not handled yet
  inbox,        \* orchestrator: the invocation message being handled
  wpc,          \* orchestrator: position of self.onmessage ("idle", "running", "done")
  wallets,      \* orchestrator: wallets (public keys of the loaded bots, in order)
  cur,          \* orchestrator: loop index i of the per-bot loop (0 in group mode)
  invoked,      \* orchestrator: calls of exports.strategy so far, in order
  isTradingActive,     \* host: React state isTradingActive
  isTradingActiveRef,  \* host: isTradingActiveRef.current
  effectRan,           \* host: value of isTradingActive the trading effect last ran with
  timers,              \* host: the timeouts that are pending (id, delay in ms)
  intervalRef,         \* host: intervalRef.current (0 for null)
  workerRef,           \* host: workerRef.current ("none" for null, "live", "terminated")
  inflight,            \* host: invocation messages posted to the worker and not completed
  tradeInterval,       \* host: tradeIntervalConfig
  hostNetwork,         \* host: the network the worker's onmessage closure was created with
  balances,            \* host: React state balances (wallet -> sol, token, tradeCount), as last rendered
  updateQueue,         \* host: updaters handed to setBalances that no render has processed yet
  refreshes            \* host: refreshBalance calls awaiting the RPC, by wallet

execVars == <<epc, steps>>
retryVars == <<pc, side, requested, amountBn, fn, attempt, delayMs, lastErr, venueCalls, delays, result,
               execVars>>
gateVars == <<pausedWallets, calls>>
workerVars == <<inbox, wpc, wallets, cur, invoked>>
balanceVars == <<hostNetwork, balances, updateQueue, refreshes>>
hostVars == <<isTradingActive, isTradingActiveRef, effectRan, timers, intervalRef, workerRef,
              inflight, tradeInterval, balanceVars>>
vars == <<ctx, retryVars, gateVars, msgs, workerVars, hostVars>>

NoErr == {}
NoResult == [kind |-> "none", sig |-> 0, err |-> NoErr]

Log(tag, n) == [type |-> "log", tag |-> tag, wallet |-> "", n |-> n]

\* ------------------------------------------------- retrying build (part_003)

\* const decimals = ctx.token?.decimals || 0
TokenDecimals(c) == IF "decimals" \in DOMAIN c.token THEN c.token.decimals ELSE 0

\* buildAmount truncating instead of rounding (Math.floor for Math.round)
buildAmount_truncating(amt, c) ==
  LET d == TokenDecimals(c) IN
  IF d >= AmountDigits
    THEN amt * Pow10(d - AmountDigits)
    ELSE amt \div Pow10(AmountDigits - d)

\* Math.round(amt * 10 ** decimals): nearest integer, ties towards +Infinity
buildAmount(amt, c) ==
  LET d == TokenDecimals(c) IN
  IF d >= AmountDigits
    THEN amt * Pow10(d - AmountDigits)
    ELSE (2 * amt + Pow10(AmountDigits - d)) \div (2 * Pow10(AmountDigits - d))

\* Route comparing the identifier for equality instead of testing the prefix
Route_exact(network) == IF network = Mainnet THEN "A" ELSE "B"

\* ctx.network.startsWith('mainnet') ? executeJupiterSwap : executeRaydiumSwap
Route(network) == IF StartsWith(network, Mainnet) THEN "A" ELSE "B"

\* classification looking for 'too low' alone
IsAmountTooLow_loose(e) == "too low" \in e

\* e.message.toLowerCase().includes('amount') && ....includes('too low')
IsAmountTooLow(e) == "amount" \in e /\ "too low" \in e

\* let delayMs = isDevnet ? 2000 : 500
InitialDelay(isDevnet) == IF isDevnet THEN 2000 ELSE 500

\* NextDelay growing linearly instead of doubling
NextDelay_linear(d) == d + 2000

\* delayMs *= 2
NextDelay(d) == d * 2

\* LoopContinues with an off-by-one loop bound
LoopContinues_inclusive(a) == a <= 3

\* while (attempt < 3)
LoopContinues(a) == a < 3

\* halving test accepting any positive amount (gtn(0) for gtn(1))
CanHalve_positive(f) == "amountBn" \in DOMAIN f /\ f.amountBn > 0

\* fn.amountBn && fn.amountBn.gtn(1)
CanHalve(f) == "amountBn" \in DOMAIN f /\ f.amountBn > 1

\* fn.amountBn = fn.amountBn.divn(2)
Halve(f) == [f EXCEPT !.amountBn = f.amountBn \div 2]

\* the amount the callable passes to the executor: "amount: amountBn" reads the
\* closure variable of buy/sell, not the property fn.amountBn
PassedAmount(f, closureAmount) == closureAmount

\* the requests executeJupiterSwap awaits, in program order: quote, swap
\* transaction, wallet signature, sendRawTransaction, latest blockhash, confirmTransaction
JupiterSteps == <<"quote", "build", "sign", "submit", "blockhash", "confirm">>

\* the requests executeRaydiumSwap awaits, in program order: Raydium.load,
\* fetchPoolByMints, sdk.swap, wallet signature, sendRawTransaction, latest
\* blockhash, confirmTransaction
RaydiumSteps == <<"load", "pools", "build", "sign", "submit", "blockhash", "confirm">>

\* what an awaited request can produce: "ok" the value asked for, "none" an
\* empty answer, "error" an answer carrying an error field, "err" a confirmation
\* result whose value.err is set, "rejected" a rejection, "tooLow" a rejection
\* whose message says the amount is too low
JupiterOutcomes(op) ==
  CASE op = "quote" -> {"ok", "none", "error", "rejected"}
    [] op = "build" -> {"ok", "none", "rejected"}
    [] op = "submit" -> {"ok", "rejected", "tooLow"}
    [] op = "confirm" -> {"ok", "err", "rejected"}
    [] OTHER -> {"ok", "rejected"}

RaydiumOutcomes(op) ==
  CASE op = "pools" -> {"ok", "none", "rejected"}
    [] op = "build" -> {"ok", "rejected", "tooLow"}
    [] op = "submit" -> {"ok", "rejected", "tooLow"}
    [] op = "confirm" -> {"ok", "err", "rejected"}
    [] OTHER -> {"ok", "rejected"}

ErrNoTransaction == {"failed to get transaction"}
ErrRejected == {"rejected"}

\* the await resolved
Resolved(r) == r \notin {"rejected", "tooLow"}

\* quote check accepting whatever the quote request answered
QuoteUsable_always(r) == TRUE

\* !(!quoteResponse || quoteResponse.error)
QuoteUsable(r) == r \notin {"none", "error"}

\* !(!swapResp || !swapResp.swapTransaction)
SwapUsable(r) == r # "none"

\* !(!poolId), poolId = pools?.data?.[0]?.id
PoolFound(r) == r # "none"

\* executeJupiterSwap goes on after the request op produced r; the value
\* confirmTransaction resolves with is not looked at
JupiterPasses(op, r) ==
  /\ Resolved(r)
  /\ op = "quote" => QuoteUsable(r)
  /\ op = "build" => SwapUsable(r)

\* executeRaydiumSwap goes on after the request op produced r
RaydiumPasses(op, r) ==
  /\ Resolved(r)
  /\ op = "pools" => PoolFound(r)

\* the error the executor raises when it does not go on
Thrown(op, r) ==
  CASE r = "tooLow" -> ErrAmountTooLow
    [] r = "rejected" -> ErrRejected
    [] op = "quote" -> ErrNoQuote
    [] op = "pools" -> ErrPoolNotFound
    [] OTHER -> ErrNoTransaction

ExecutorIdle == [at |-> "idle", err |-> NoErr]

\* fn() is called: the executor runs up to its first await
FirstStep(venue) ==
  <<[op |-> IF venue = "A" THEN JupiterSteps[1] ELSE RaydiumSteps[1], res |-> "pending"]>>

\* the executor after its pending request produced r: raise, return the
\* signature after the last request, or issue the next request
Advance(order, st, passes, r) ==
  LET n == Len(st)
      done == [st EXCEPT ![n].res = r]
  IN IF ~passes
       THEN <<[at |-> "threw", err |-> Thrown(st[n].op, r)], done>>
       ELSE IF n = Len(order)
              THEN <<[at |-> "returned", err |-> NoErr], done>>
              ELSE <<[at |-> "running", err |-> NoErr],
                     Append(done, [op |-> order[n + 1], res |-> "pending"])>>

VenueCall(f, closureAmount, s, k) ==
  [venue |-> f.venue, amount |-> PassedAmount(f, closureAmount), side |-> s,
   attempt |-> k, outcome |-> "pending", err |-> NoErr]

\* buy/sell up to the first await of retrySwap
StartTrade(s, amt) ==
  /\ pc = "idle"
  /\ LET bn == buildAmount(amt, ctx)
         venue == Route(ctx.network)
         f == IF venue = "A" THEN [venue |-> "A"] ELSE [venue |-> "B", amountBn |-> bn]
     IN /\ side' = s
        /\ requested' = amt
        /\ amountBn' = bn
        /\ fn' = f
        /\ attempt' = 0
        /\ lastErr' = NoErr
        /\ delayMs' = InitialDelay(venue = "B")
        /\ msgs' = msgs \o <<Log("attempting-" \o s, amt), Log("using-" \o venue, 0)>>
        /\ venueCalls' = <<VenueCall(f, bn, s, 1)>>
        /\ delays' = <<>>
        /\ result' = NoResult
        /\ epc' = [at |-> "running", err |-> NoErr]
        /\ steps' = FirstStep(venue)
        /\ pc' = "attempting"
  /\ UNCHANGED <<ctx, gateVars, workerVars, hostVars>>

BuyRetry(amt) == StartTrade("buy", amt)

SellRetry(amt) == StartTrade("sell", amt)

SetOutcome(cs, o, e) == [cs EXCEPT ![Len(cs)].outcome = o, ![Len(cs)].err = e]

\* await fn() resolves: retrySwap returns the signature, buy/sell logs and returns it
VenueSucceeds ==
  /\ pc = "attempting"
  /\ venueCalls' = SetOutcome(venueCalls, "ok", NoErr)
  /\ result' = [kind |-> "returned", sig |-> Len(venueCalls), err |-> NoErr]
  /\ msgs' = Append(msgs, Log("succeeded", 0))
  /\ pc' = "success"
  /\ UNCHANGED <<ctx, side, requested, amountBn, fn, attempt, delayMs, lastErr, delays, execVars, gateVars, workerVars, hostVars>>

\* await fn() rejects with e: the catch block of retrySwap up to its await
VenueFails(e) ==
  /\ pc = "attempting"
  /\ venueCalls' = SetOutcome(venueCalls, "failed", e)
  /\ lastErr' = e
  /\ IF IsAmountTooLow(e) /\ ~CanHalve(fn)
       THEN \* break; throw lastErr; caught, logged and rethrown by buy/sell
            /\ pc' = "failed"
            /\ result' = [kind |-> "threw", sig |-> 0, err |-> e]
            /\ msgs' = msgs \o <<Log("attempt-failed", attempt + 1), Log("trade-failed", 0)>>
            /\ UNCHANGED <<fn, delays>>
       ELSE /\ pc' = "backoff"
            /\ delays' = Append(delays, [after |-> attempt + 1, ms |-> delayMs])
            /\ IF IsAmountTooLow(e)
                 THEN /\ fn' = Halve(fn)
                      /\ msgs' = msgs \o <<Log("attempt-failed", attempt + 1), Log("decreasing", 0)>>
                 ELSE /\ fn' = fn
                      /\ msgs' = Append(msgs, Log("attempt-failed", attempt + 1))
            /\ UNCHANGED result
  /\ UNCHANGED <<ctx, side, requested, amountBn, attempt, delayMs, execVars, gateVars, workerVars, hostVars>>

\* the setTimeout of retrySwap fires: delayMs *= 2; attempt++; next iteration or throw lastErr
BackoffElapsed ==
  /\ pc = "backoff"
  /\ delayMs' = NextDelay(delayMs)
  /\ attempt' = attempt + 1
  /\ IF LoopContinues(attempt + 1)
       THEN /\ venueCalls' = Append(venueCalls, VenueCall(fn, amountBn, side, attempt + 2))
            /\ epc' = [at |-> "running", err |-> NoErr]
            /\ steps' = FirstStep(fn.venue)
            /\ pc' = "attempting"
            /\ UNCHANGED <<result, msgs>>
       ELSE /\ pc' = "failed"
            /\ result' = [kind |-> "threw", sig |-> 0, err |-> lastErr]
            /\ msgs' = Append(msgs, Log("trade-failed", 0))
            /\ UNCHANGED <<venueCalls, execVars>>
  /\ UNCHANGED <<ctx, side, requested, amountBn, fn, lastErr, delays, gateVars, workerVars, hostVars>>

\* the strategy's awaited buy/sell has settled and the host has handled the
\* messages posted so far; the next TradeRequest may start
Settle ==
  /\ pc \in {"success", "failed"}
  /\ pc' = "idle"
  /\ msgs' = <<>>
  /\ UNCHANGED <<ctx, side, requested, amountBn, fn, attempt, delayMs, lastErr,
                 venueCalls, delays, result, execVars, gateVars, workerVars, hostVars>>

\* a new invocation message replaces the context snapshot
OnMessageRetry ==
  /\ pc = "idle"
  /\ \E net \in Networks, t \in TokenChoices :
       ctx' = [ctx EXCEPT !.network = net, !.token = t]
  /\ msgs' = <<>>
  /\ UNCHANGED <<retryVars, gateVars, workerVars, hostVars>>

InitRetryState ==
  /\ pc = "idle"
  /\ side = "buy"
  /\ requested = 0
  /\ amountBn = 0
  /\ fn = [venue |-> "A"]
  /\ attempt = 0
  /\ delayMs = 0
  /\ lastErr = NoErr
  /\ venueCalls = <<>>
  /\ delays = <<>>
  /\ result = NoResult
  /\ epc = ExecutorIdle
  /\ steps = <<>>

InitGateState ==
  /\ pausedWallets = <<>>
  /\ calls = <<>>

\* the provider after mount: trading off, its effect has run once, no timer, no worker
InitHostState ==
  /\ isTradingActive = FALSE
  /\ isTradingActiveRef = FALSE
  /\ effectRan = FALSE
  /\ timers = {}
  /\ intervalRef = 0
  /\ workerRef = "none"
  /\ inflight = 0
  /\ tradeInterval = [mode |-> "fixed", fixed |-> 5, min |-> 1, max |-> 2]
  /\ balances = <<>>
  /\ updateQueue = <<>>
  /\ refreshes = <<>>

NoMessage == [code |-> "", bots |-> <<>>, mode |-> "", setup |-> ""]

InitWorkerState ==
  /\ inbox = NoMessage
  /\ wpc = "idle"
  /\ wallets = <<>>
  /\ cur = 0
  /\ invoked = <<>>
  /\ InitHostState

InitRetry ==
  /\ \E net \in Networks, t \in TokenChoices :
       ctx = [network |-> net, token |-> t, poolId |-> "", walletBalances |-> <<>>]
  /\ InitRetryState
  /\ InitGateState
  /\ InitWorkerState
  /\ hostNetwork = MainnetBeta
  /\ msgs = <<>>

NextRetry ==
  \/ \E amt \in RetryAmounts : BuyRetry(amt)
  \/ \E amt \in RetryAmounts : SellRetry(amt)
  \/ VenueSucceeds
  \/ \E e \in ErrMessages : VenueFails(e)
  \/ BackoffElapsed
  \/ Settle
  \/ OnMessageRetry

SpecRetry == InitRetry /\ [][NextRetry]_vars

\* --------------------------------------- gated build (workers/bot-worker.js)

Wallets == {"w1", "w2"}

\* const fee = 0.00001
Fee == Pow10(AmountDigits - 5)

\* context snapshots the host sends to the gated build
GateNetworks == {MainnetBeta, Devnet}
GatePools == {"", "ctxPool"}
OptPools == {"", "optPool"}
GateToken == [address |-> "mint", decimals |-> 6]
Low == [sol |-> Half, token |-> Half]
Rich == [sol |-> 4 * Half, token |-> 0]
BalanceMaps == {[w \in {"w1"} |-> Low], [w \in Wallets |-> IF w = "w1" THEN Low ELSE Rich],
                [w \in Wallets |-> IF w = "w1" THEN Rich ELSE Low]}

\* amounts a strategy passes to buy/sell in the gated build
GateAmounts == {Half, 2 * Half}

\* IsPaused never consulting the latch
IsPaused_never(pw, key) == FALSE

\* !pausedWallets[key] is false only for a key stored as true
IsPaused(pw, key) == key \in DOMAIN pw /\ pw[key]

\* SetPaused writing the flag of every wallet on record
SetPaused_all(pw, key, v) == [k \in DOMAIN pw \cup {key} |-> v]

\* pausedWallets[key] = v
SetPaused(pw, key, v) == [k \in DOMAIN pw \cup {key} |-> IF k = key THEN v ELSE pw[k]]

\* gate treating a wallet without a cached balance as empty
BuyBlocked_unknownIsEmpty(c, key, amt) ==
  key \notin DOMAIN c.walletBalances \/ c.walletBalances[key].sol < amt + Fee

\* gate that also skips every buy of a wallet whose paused flag is set
BuyBlocked_whilePaused(c, key, amt) ==
  \/ key \in DOMAIN pausedWallets /\ pausedWallets[key]
  \/ key \in DOMAIN c.walletBalances /\ c.walletBalances[key].sol < amt + Fee

\* BuyBlocked forgetting the fee reserve
BuyBlocked_nofee(c, key, amt) ==
  key \in DOMAIN c.walletBalances /\ c.walletBalances[key].sol < amt

\* gate that deducts the wallet's completed buys from the cached balance
BuyBlocked_spent(c, key, amt) ==
  /\ key \in DOMAIN c.walletBalances
  /\ c.walletBalances[key].sol
       - Cardinality({i \in 1..Len(calls) :
                       calls[i].wallet = key /\ calls[i].side = "buy" /\ calls[i].st = "returned"})
         * amt
       < amt + Fee

\* const bal = ctx.walletBalances?.[key]; bal && bal.sol < amount + fee
BuyBlocked(c, key, amt) ==
  key \in DOMAIN c.walletBalances /\ c.walletBalances[key].sol < amt + Fee

\* const bal = ctx.walletBalances?.[key]; bal && bal.token < amount
SellBlocked(c, key, amt) ==
  key \in DOMAIN c.walletBalances /\ c.walletBalances[key].token < amt

\* pool resolution that looks at the context only
ResolvePool_contextOnly(optPool, c) == c.poolId

\* const poolId = opts.poolId || ctx.poolId
ResolvePool(optPool, c) == IF optPool # "" THEN optPool ELSE c.poolId

WLog(tag, key, n) == [type |-> "log", tag |-> tag, wallet |-> key, n |-> n]

\* BalanceUpdate carrying the unsigned amount
BalanceUpdate_unsigned(key, s, amt) ==
  [type |-> "balanceUpdate", tag |-> IF s = "buy" THEN "solChange" ELSE "tokenChange",
   wallet |-> key, n |-> amt]

\* self.postMessage({ balanceUpdate: { wallet: key, solChange | tokenChange: -amount } })
BalanceUpdate(key, s, amt) ==
  [type |-> "balanceUpdate", tag |-> IF s = "buy" THEN "solChange" ELSE "tokenChange",
   wallet |-> key, n |-> -amt]

Call(key, s, amt, st, venue, pool, bn, e) ==
  [wallet |-> key, side |-> s, amount |-> amt, st |-> st,
   venue |-> venue, pool |-> pool, amountBn |-> bn, err |-> e]

\* buy/sell of the gated build up to its first await (or its return or throw)
GatedTrade(key, s, amt, optPool, blocked) ==
  /\ Len(calls) < MaxCalls
  /\ IF blocked
       THEN \* insufficient cached balance: latch, log once, return undefined
            /\ pausedWallets' = IF IsPaused(pausedWallets, key)
                                  THEN pausedWallets
                                  ELSE SetPaused(pausedWallets, key, TRUE)
            /\ msgs' = msgs \o <<WLog(s \o "-request", key, amt)>> \o
                       (IF IsPaused(pausedWallets, key) THEN <<>> ELSE <<WLog("paused", key, 0)>>)
            /\ calls' = Append(calls, Call(key, s, amt, "skipped", "none", "", 0, NoErr))
       ELSE /\ pausedWallets' = SetPaused(pausedWallets, key, FALSE)
            /\ LET bn == buildAmount(amt, ctx)
                   pool == ResolvePool(optPool, ctx)
               IN IF Route(ctx.network) = "A"
                    THEN /\ calls' = Append(calls, Call(key, s, amt, "venue", "A", "", bn, NoErr))
                         /\ msgs' = Append(msgs, WLog(s \o "-request", key, amt))
                    ELSE IF pool = ""
                      THEN \* log('[trade] Missing poolId ...'); throw new Error('poolId required')
                           /\ calls' = Append(calls, Call(key, s, amt, "threw", "none", "", bn, {"poolid required"}))
                           /\ msgs' = msgs \o <<WLog(s \o "-request", key, amt), WLog("missing-poolId", key, 0)>>
                      ELSE /\ calls' = Append(calls, Call(key, s, amt, "venue", "B", pool, bn, NoErr))
                           /\ msgs' = Append(msgs, WLog(s \o "-request", key, amt))
  /\ UNCHANGED <<ctx, retryVars, workerVars, hostVars>>

BuyGate(key, amt, optPool) == GatedTrade(key, "buy", amt, optPool, BuyBlocked(ctx, key, amt))

SellGate(key, amt, optPool) == GatedTrade(key, "sell", amt, optPool, SellBlocked(ctx, key, amt))

\* the awaited executor resolves with a signature: post the balanceUpdate, return sig
ExecutorReturns(i) ==
  /\ i \in 1..Len(calls)
  /\ calls[i].st = "venue"
  /\ calls' = [calls EXCEPT ![i].st = "returned"]
  /\ msgs' = Append(msgs, BalanceUpdate(calls[i].wallet, calls[i].side, calls[i].amount))
  /\ UNCHANGED <<ctx, retryVars, pausedWallets, workerVars, hostVars>>

\* the awaited executor rejects: the error propagates out of buy/sell
ExecutorThrows(i, e) ==
  /\ i \in 1..Len(calls)
  /\ calls[i].st = "venue"
  /\ calls' = [calls EXCEPT ![i].st = "threw", ![i].err = e]
  /\ UNCHANGED <<ctx, retryVars, pausedWallets, msgs, workerVars, hostVars>>

\* the next invocation message brings a new context snapshot; pausedWallets is
\* module state and survives
NewInvocationGate ==
  /\ \A i \in 1..Len(calls) : calls[i].st # "venue"
  /\ Len(calls) > 0
  /\ \E net \in GateNetworks, pool \in GatePools, bm \in BalanceMaps :
       ctx' = [network |-> net, token |-> GateToken, poolId |-> pool, walletBalances |-> bm]
  /\ calls' = <<>>
  /\ msgs' = <<>>
  /\ UNCHANGED <<retryVars, pausedWallets, workerVars, hostVars>>

InitGate ==
  /\ \E net \in GateNetworks, pool \in GatePools, bm \in BalanceMaps :
       ctx = [network |-> net, token |-> GateToken, poolId |-> pool, walletBalances |-> bm]
  /\ InitRetryState
  /\ InitGateState
  /\ InitWorkerState
  /\ hostNetwork = MainnetBeta
  /\ msgs = <<>>

NextGate ==
  \/ \E key \in Wallets, amt \in GateAmounts, optPool \in OptPools : BuyGate(key, amt, optPool)
  \/ \E key \in Wallets, amt \in GateAmounts, optPool \in OptPools : SellGate(key, amt, optPool)
  \/ \E i \in 1..MaxCalls : ExecutorReturns(i)
  \/ \E i \in 1..MaxCalls : ExecutorThrows(i, ErrNoQuote)
  \/ NewInvocationGate

SpecGate == InitGate /\ [][NextGate]_vars

\* ------------------------- message handler (workers/bot-worker.js, onmessage)

\* strategy sources the host may send: one that does not parse, one that throws
\* while it is run to fill exports, one that exports no function, a working one
Codes == {"syntaxError", "initThrows", "noExport", "ok"}

\* bots entries: secret keys; "bad" is one Keypair.fromSecretKey rejects
BotLists == {<<>>, <<"bad">>, <<"k1">>, <<"k1", "bad", "k2">>, <<"k3", "k2", "k1">>}

Modes == {"per-bot", "group"}

\* new web3.Connection(rpcUrl) returns, throws an Error, or throws a value
\* that carries no stack
Setups == {"ok", "throws", "throwsBare"}

\* context snapshots of the invocation message: w1 short of native currency,
\* w2 short of tokens, w3 without a cached balance
WorkerBalances == [w \in Wallets |-> IF w = "w1" THEN Low ELSE Rich]
WorkerContexts ==
  {[network |-> net, token |-> GateToken, poolId |-> "ctxPool", walletBalances |-> WorkerBalances] :
     net \in GateNetworks}

\* the amount the strategies of this specification trade
WorkerAmounts == {Half}

NoContext == [network |-> <<>>, token |-> GateToken, poolId |-> "", walletBalances |-> <<>>]

ErrorMsg(tag) == [type |-> "error", tag |-> tag, wallet |-> "", n |-> 0]

\* web3.Keypair.fromSecretKey(Uint8Array.from(sk)).publicKey.toBase58()
PublicKeyOf(sk) ==
  CASE sk = "k1" -> "w1"
    [] sk = "k2" -> "w2"
    [] sk = "k3" -> "w3"
    [] OTHER -> ""

\* wallet loading that gives up at the first rejected entry
RECURSIVE LoadWallets_stopAtBad(_)
LoadWallets_stopAtBad(bots) ==
  IF bots = <<>> \/ PublicKeyOf(Head(bots)) = "" THEN <<>>
  ELSE <<PublicKeyOf(Head(bots))>> \o LoadWallets_stopAtBad(Tail(bots))

\* bots.map(...).filter(Boolean): the loaded wallets, in input order
RECURSIVE LoadWallets(_)
LoadWallets(bots) ==
  IF bots = <<>> THEN <<>>
  ELSE (IF PublicKeyOf(Head(bots)) = "" THEN <<>> ELSE <<PublicKeyOf(Head(bots))>>)
       \o LoadWallets(Tail(bots))

\* one `Failed to load bot i` log per rejected entry, i counted from 0
RECURSIVE LoadLogs(_, _)
LoadLogs(bots, i) ==
  IF bots = <<>> THEN <<>>
  ELSE (IF PublicKeyOf(Head(bots)) = "" THEN <<Log("failed-to-load", i)>> ELSE <<>>)
       \o LoadLogs(Tail(bots), i + 1)

\* trade APIs built one position off the wallets list
TradeApis_rotated(ws) == [i \in 1..Len(ws) |-> ws[(i % Len(ws)) + 1]]

\* wallets.map((w) => createTradeApi(w, workerContext, log)): the wallet each
\* trade API is closed over
TradeApis(ws) == [i \in 1..Len(ws) |-> ws[i]]

\* botContexts pairing each wallet with the trade API of the mirrored index
BotContexts_mirrored(ws) ==
  [i \in 1..Len(ws) |-> [wallet |-> ws[i], api |-> TradeApis(ws)[Len(ws) + 1 - i]]]

\* wallets.map((wallet, i) => ({ wallet, ..., buy: tradeApis[i].buy, sell: tradeApis[i].sell }))
BotContexts(ws) == [i \in 1..Len(ws) |-> [wallet |-> ws[i], api |-> TradeApis(ws)[i]]]

\* await exports.strategy(log, groupCtx)
GroupInvocation(ws) ==
  [kind |-> "group", wallet |-> "", api |-> "", bots |-> BotContexts(ws), st |-> "pending"]

\* await exports.strategy(wallet, log, { ...workerContext, buy: tradeApis[i].buy, sell: tradeApis[i].sell })
BotInvocation(ws, i) ==
  [kind |-> "per-bot", wallet |-> ws[i], api |-> TradeApis(ws)[i], bots |-> <<>>, st |-> "pending"]

\* outer catch posting the stack line after the error message
UnhandledError_errorFirst(setup) ==
  <<Log("unhandled", 0), ErrorMsg("unhandled")>> \o
  (IF setup = "throws" THEN <<Log("stack", 0)>> ELSE <<>>)

\* outer catch: log the message, log err.stack if there is one, post { error }
UnhandledError(setup) ==
  <<Log("unhandled", 0)>> \o
  (IF setup = "throws" THEN <<Log("stack", 0)>> ELSE <<>>) \o
  <<ErrorMsg("unhandled")>>

\* catch (compileErr): log, post { error }, return
CompileFailure == <<Log("compile-failed", 0), ErrorMsg("compile")>>

\* initialization failure reported with the compile failure's log line
InitFailure_asCompile == <<Log("compile-failed", 0), ErrorMsg("init")>>

\* catch (execErr): log, post { error }, return
InitFailure == <<Log("init-failed", 0), ErrorMsg("init")>>

\* export check accepting anything
HasStrategy_any(code) == TRUE

\* typeof exports.strategy === 'function'
HasStrategy(code) == code = "ok"

\* wallets check that never fires
NoWallets_never(ws) == FALSE

\* wallets.length === 0
NoWallets(ws) == Len(ws) = 0

\* error log of the per-bot catch without the wallet's address
ErrorInBot_anonymous(w) == WLog("error-in-bot", "", 0)

\* per-bot catch reporting the failure as an {error} message
ErrorInBot_fatal(w) == ErrorMsg("bot")

\* log(`[worker] Error in bot ${wallet.publicKey.toBase58()}: ...`)
ErrorInBot(w) == WLog("error-in-bot", w, 0)

\* self.onmessage from its first line to its first await or its return
OnMessage(m, c) ==
  /\ wpc = "idle"
  /\ inbox' = m
  /\ LET ws == LoadWallets(m.bots)
         head == <<Log("received-" \o m.mode, Len(m.bots))>>
         loaded == head \o LoadLogs(m.bots, 0)
         prepared == loaded \o <<Log("preparing-" \o m.mode, Len(ws))>>
     IN IF m.setup # "ok"
          THEN \* new web3.Connection(rpcUrl) throws: outer catch
               /\ msgs' = msgs \o head \o UnhandledError(m.setup)
               /\ wpc' = "done"
               /\ UNCHANGED <<ctx, wallets, cur, invoked>>
          ELSE
            /\ ctx' = c
            /\ wallets' = ws
            /\ IF m.code = "syntaxError"
                 THEN /\ msgs' = msgs \o loaded \o CompileFailure
                      /\ wpc' = "done"
                      /\ UNCHANGED <<cur, invoked>>
               ELSE IF m.code = "initThrows"
                 THEN /\ msgs' = msgs \o loaded \o InitFailure
                      /\ wpc' = "done"
                      /\ UNCHANGED <<cur, invoked>>
               ELSE IF ~HasStrategy(m.code)
                 THEN /\ msgs' = msgs \o prepared \o <<Log("no-strategy", 0)>>
                      /\ wpc' = "done"
                      /\ UNCHANGED <<cur, invoked>>
               ELSE IF NoWallets(ws)
                 THEN /\ msgs' = msgs \o prepared \o <<Log("no-bots", 0)>>
                      /\ wpc' = "done"
                      /\ UNCHANGED <<cur, invoked>>
               ELSE IF m.mode = "group"
                 THEN /\ msgs' = msgs \o prepared \o <<Log("running-group", 0)>>
                      /\ invoked' = <<GroupInvocation(ws)>>
                      /\ wpc' = "running"
                      /\ UNCHANGED cur
               ELSE IF Len(ws) = 0
                 THEN \* for (let i = 0; i < wallets.length; i++) runs no iteration
                      /\ msgs' = msgs \o prepared
                      /\ wpc' = "done"
                      /\ UNCHANGED <<cur, invoked>>
               ELSE   /\ msgs' = msgs \o prepared \o <<WLog("running-per-bot", ws[1], 0)>>
                      /\ invoked' = <<BotInvocation(ws, 1)>>
                      /\ cur' = 1
                      /\ wpc' = "running"
  /\ UNCHANGED <<retryVars, gateVars, hostVars>>

\* the trade APIs the pending strategy invocation was handed
PendingApis ==
  IF wpc # "running" THEN {}
  ELSE LET inv == invoked[Len(invoked)]
       IN IF inv.kind = "group" THEN {inv.bots[i].api : i \in 1..Len(inv.bots)}
          ELSE {inv.api}

\* the pending strategy invocation calls buy of an API it was handed
StrategyBuy(key, amt) ==
  /\ key \in PendingApis
  /\ BuyGate(key, amt, "")

\* the pending strategy invocation calls sell of an API it was handed
StrategySell(key, amt) ==
  /\ key \in PendingApis
  /\ SellGate(key, amt, "")

\* the promise of the pending strategy invocation settles: the handler resumes
\* after its await and runs to the next await or to its end
StrategySettles(out) ==
  /\ wpc = "running"
  /\ LET n == Len(invoked)
         settled == [invoked EXCEPT ![n].st = out]
     IN IF invoked[n].kind = "group"
          THEN /\ msgs' = Append(msgs, IF out = "threw" THEN Log("error-in-group", 0)
                                                        ELSE Log("group-complete", 0))
               /\ invoked' = settled
               /\ wpc' = "done"
               /\ UNCHANGED cur
          ELSE LET caught == IF out = "threw" THEN <<ErrorInBot(wallets[cur])>> ELSE <<>>
               IN IF cur < Len(wallets)
                    THEN /\ msgs' = msgs \o caught \o <<WLog("running-per-bot", wallets[cur + 1], 0)>>
                         /\ invoked' = Append(settled, BotInvocation(wallets, cur + 1))
                         /\ cur' = cur + 1
                         /\ UNCHANGED wpc
                    ELSE /\ msgs' = msgs \o caught
                         /\ invoked' = settled
                         /\ wpc' = "done"
                         /\ UNCHANGED cur
  /\ UNCHANGED <<ctx, retryVars, gateVars, inbox, wallets, hostVars>>

\* the host stops trading: worker.terminate(); the next run creates a new worker
WorkerTerminated ==
  /\ wpc # "idle"
  /\ ctx' = NoContext
  /\ pausedWallets' = <<>>
  /\ calls' = <<>>
  /\ msgs' = <<>>
  /\ inbox' = NoMessage
  /\ wpc' = "idle"
  /\ wallets' = <<>>
  /\ cur' = 0
  /\ invoked' = <<>>
  /\ UNCHANGED <<retryVars, hostVars>>

InitWorker ==
  /\ ctx = NoContext
  /\ InitRetryState
  /\ InitGateState
  /\ InitWorkerState
  /\ hostNetwork = MainnetBeta
  /\ msgs = <<>>

NextWorker ==
  \/ \E code \in Codes, bots \in BotLists, mode \in Modes, setup \in Setups, c \in WorkerContexts :
       OnMessage([code |-> code, bots |-> bots, mode |-> mode, setup |-> setup], c)
  \/ \E key \in {"w1", "w2", "w3"}, amt \in WorkerAmounts : StrategyBuy(key, amt)
  \/ \E key \in {"w1", "w2", "w3"}, amt \in WorkerAmounts : StrategySell(key, amt)
  \/ \E out \in {"resolved", "threw"} : StrategySettles(out)
  \/ \E i \in 1..MaxCalls : ExecutorReturns(i)
  \/ \E i \in 1..MaxCalls : ExecutorThrows(i, ErrNoQuote)
  \/ WorkerTerminated

SpecWorker == InitWorker /\ [][NextWorker]_vars

\* ------------- the two trade APIs serving one strategy, one request at a time

\* a strategy that awaits every trade alternates between the retrying API
\* (part_003) and the gated API (workers/bot-worker.js); each API keeps its own
\* state, the context snapshot is the invocation's
EngineAmounts == {5, Half}
EngineErrors == {ErrAmountTooLow, ErrNoQuote}

\* no buy/sell of the gated API is awaiting its executor
GateQuiet == \A i \in 1..Len(calls) : calls[i].st # "venue"

InitEngine ==
  /\ ctx \in WorkerContexts
  /\ InitRetryState
  /\ InitGateState
  /\ InitWorkerState
  /\ hostNetwork = MainnetBeta
  /\ msgs = <<>>

NextEngine ==
  \/ \E amt \in EngineAmounts : GateQuiet /\ BuyRetry(amt)
  \/ \E amt \in EngineAmounts : GateQuiet /\ SellRetry(amt)
  \/ VenueSucceeds
  \/ \E e \in EngineErrors : VenueFails(e)
  \/ BackoffElapsed
  \/ Settle
  \/ \E key \in Wallets : pc = "idle" /\ GateQuiet /\ BuyGate(key, Half, "")
  \/ \E key \in Wallets : pc = "idle" /\ GateQuiet /\ SellGate(key, Half, "")
  \/ \E i \in 1..MaxCalls : ExecutorReturns(i)
  \/ \E i \in 1..MaxCalls : ExecutorThrows(i, ErrNoQuote)

SpecEngine == InitEngine /\ [][NextEngine]_vars

\* ------------------- venue executors under the retry controller (part_003)

ExecutorAmounts == {Half, 3 * Half}
ExecutorNetworks == {MainnetBeta, Devnet}
ExecutorOutcomes == {"ok", "none", "error", "err", "rejected", "tooLow"}

\* an await of executeJupiterSwap settles with r
JupiterStep(r) ==
  /\ pc = "attempting"
  /\ fn.venue = "A"
  /\ epc.at = "running"
  /\ LET op == steps[Len(steps)].op
     IN /\ r \in JupiterOutcomes(op)
        /\ epc' = Advance(JupiterSteps, steps, JupiterPasses(op, r), r)[1]
        /\ steps' = Advance(JupiterSteps, steps, JupiterPasses(op, r), r)[2]
  /\ UNCHANGED <<ctx, pc, side, requested, amountBn, fn, attempt, delayMs, lastErr, venueCalls,
                 delays, result, gateVars, msgs, workerVars, hostVars>>

\* an await of executeRaydiumSwap settles with r
RaydiumStep(r) ==
  /\ pc = "attempting"
  /\ fn.venue = "B"
  /\ epc.at = "running"
  /\ LET op == steps[Len(steps)].op
     IN /\ r \in RaydiumOutcomes(op)
        /\ epc' = Advance(RaydiumSteps, steps, RaydiumPasses(op, r), r)[1]
        /\ steps' = Advance(RaydiumSteps, steps, RaydiumPasses(op, r), r)[2]
  /\ UNCHANGED <<ctx, pc, side, requested, amountBn, fn, attempt, delayMs, lastErr, venueCalls,
                 delays, result, gateVars, msgs, workerVars, hostVars>>

\* return await fn(): the executor returned its signature
ExecutorResolves == epc.at = "returned" /\ VenueSucceeds

\* catch (e): the executor raised
ExecutorRejects == epc.at = "threw" /\ VenueFails(epc.err)

InitExecutor ==
  /\ \E net \in ExecutorNetworks :
       ctx = [network |-> net, token |-> [address |-> "mint", decimals |-> 6], poolId |-> "",
              walletBalances |-> <<>>]
  /\ InitRetryState
  /\ InitGateState
  /\ InitWorkerState
  /\ hostNetwork = MainnetBeta
  /\ msgs = <<>>

NextExecutor ==
  \/ \E amt \in ExecutorAmounts : BuyRetry(amt)
  \/ \E amt \in ExecutorAmounts : SellRetry(amt)
  \/ \E r \in ExecutorOutcomes : JupiterStep(r)
  \/ \E r \in ExecutorOutcomes : RaydiumStep(r)
  \/ ExecutorResolves
  \/ ExecutorRejects
  \/ BackoffElapsed
  \/ Settle

SpecExecutor == InitExecutor /\ [][NextExecutor]_vars

\* --------------------------- host scheduler (BotContext provider, part_001)

\* cap on the invocation messages the worker has not completed
MaxInflight == 3

TimerIds == 1..4

\* const defaultInterval = { mode: 'fixed', fixed: 5, min: 1, max: 2 }
DefaultInterval == [mode |-> "fixed", fixed |-> 5, min |-> 1, max |-> 2]

\* trade interval configurations the user may set: fixed or drawn from [min, max]
TradeIntervals ==
  {DefaultInterval, [DefaultInterval EXCEPT !.mode = "random"], [DefaultInterval EXCEPT !.fixed = 1],
   [DefaultInterval EXCEPT !.mode = "random", !.max = 300]}

\* delaySec * 1000 for cfg: the fixed value, or min + Math.random() * (max - min),
\* sampled at its lower end and at its midpoint
Delays(cfg) ==
  IF cfg.mode = "fixed" THEN {cfg.fixed * 1000}
  ELSE {cfg.min * 1000, (cfg.min + cfg.max) * 500}

\* the id setTimeout returns: one no pending timer and no kept reference has
FreshId(t, r) == CHOOSE i \in TimerIds : i \notin {x.id : x \in t} \cup {r}

\* rescheduling without clearing the pending timeout
ClearTimeout_forgotten(t, r) == t

\* clearTimeout(intervalRef.current)
ClearTimeout(t, r) == {x \in t : x.id # r}

\* timer callback that runs whatever the ref says
CallbackRuns_always(ref) == TRUE

\* if (!isTradingActiveRef.current) return;
CallbackRuns(ref) == ref

\* scheduleNext() drawing the delay d: returns <<timers, intervalRef>>
ScheduleNext(ref, t, r, d) ==
  IF ~ref THEN <<t, r>> ELSE <<t \cup {[id |-> FreshId(t, r), ms |-> d]}, FreshId(t, r)>>

\* runBotLogic(): create the worker if there is none, post one invocation
\* message; returns <<workerRef, inflight>>
RunBotLogic(w, n) ==
  IF w = "none" THEN <<"live", 1>>
  ELSE IF w = "live" THEN <<"live", n + 1>>
  ELSE <<w, n>>

\* startTrading()
StartTrading ==
  /\ ~isTradingActive
  /\ effectRan = isTradingActive
  /\ isTradingActiveRef' = TRUE
  /\ isTradingActive' = TRUE
  /\ UNCHANGED <<ctx, retryVars, gateVars, msgs, workerVars, balanceVars, effectRan, timers, intervalRef,
                 workerRef, inflight, tradeInterval>>

\* stopTrading()
StopTrading ==
  /\ isTradingActive
  /\ effectRan = isTradingActive
  /\ isTradingActiveRef' = FALSE
  /\ isTradingActive' = FALSE
  /\ UNCHANGED <<ctx, retryVars, gateVars, msgs, workerVars, balanceVars, effectRan, timers, intervalRef,
                 workerRef, inflight, tradeInterval>>

\* the trading effect after isTradingActive changed: cleanup of the previous
\* run, then the body
TradingEffect ==
  /\ effectRan # isTradingActive
  /\ effectRan' = isTradingActive
  /\ LET t1 == ClearTimeout(timers, intervalRef)
         w1 == IF workerRef = "live" THEN "terminated" ELSE workerRef
         n1 == IF workerRef = "live" THEN 0 ELSE inflight
     IN IF isTradingActive
          THEN /\ workerRef' = RunBotLogic(w1, n1)[1]
               /\ inflight' = RunBotLogic(w1, n1)[2]
               /\ \E d \in Delays(tradeInterval) :
                    /\ timers' = ScheduleNext(isTradingActiveRef, t1, intervalRef, d)[1]
                    /\ intervalRef' = ScheduleNext(isTradingActiveRef, t1, intervalRef, d)[2]
          ELSE /\ timers' = t1
               /\ intervalRef' = 0
               /\ workerRef' = "none"
               /\ inflight' = 0
  /\ UNCHANGED <<ctx, retryVars, gateVars, msgs, workerVars, balanceVars, isTradingActive,
                 isTradingActiveRef, tradeInterval>>

\* a pending timeout fires: the callback of scheduleNext
TimerFires(id) ==
  /\ \E x \in timers : x.id = id
  /\ IF CallbackRuns(isTradingActiveRef)
       THEN /\ inflight < MaxInflight
            /\ workerRef' = RunBotLogic(workerRef, inflight)[1]
            /\ inflight' = RunBotLogic(workerRef, inflight)[2]
            /\ \E d \in Delays(tradeInterval) :
                 LET rest == {x \in timers : x.id # id}
                 IN /\ timers' = ScheduleNext(isTradingActiveRef, rest, intervalRef, d)[1]
                    /\ intervalRef' = ScheduleNext(isTradingActiveRef, rest, intervalRef, d)[2]
       ELSE /\ timers' = {x \in timers : x.id # id}
            /\ UNCHANGED <<workerRef, inflight, intervalRef>>
  /\ UNCHANGED <<ctx, retryVars, gateVars, msgs, workerVars, balanceVars, isTradingActive,
                 isTradingActiveRef, effectRan, tradeInterval>>

\* setTradeIntervalConfig(cfg) and the effect on tradeIntervalConfig
SetTradeInterval(cfg) ==
  /\ cfg # tradeInterval
  /\ effectRan = isTradingActive
  /\ tradeInterval' = cfg
  /\ IF ~isTradingActiveRef
       THEN UNCHANGED <<timers, intervalRef>>
       ELSE \E d \in Delays(cfg) :
              LET rest == ClearTimeout(timers, intervalRef)
              IN /\ timers' = ScheduleNext(isTradingActiveRef, rest, intervalRef, d)[1]
                 /\ intervalRef' = ScheduleNext(isTradingActiveRef, rest, intervalRef, d)[2]
  /\ UNCHANGED <<ctx, retryVars, gateVars, msgs, workerVars, balanceVars, isTradingActive,
                 isTradingActiveRef, effectRan, workerRef, inflight>>

\* the worker's handler for one invocation message has run to its end
InvocationCompletes ==
  /\ workerRef = "live"
  /\ inflight > 0
  /\ inflight' = inflight - 1
  /\ UNCHANGED <<ctx, retryVars, gateVars, msgs, workerVars, balanceVars, isTradingActive,
                 isTradingActiveRef, effectRan, timers, intervalRef, workerRef, tradeInterval>>

InitHost ==
  /\ ctx = NoContext
  /\ InitRetryState
  /\ InitGateState
  /\ InitWorkerState
  /\ hostNetwork = MainnetBeta
  /\ msgs = <<>>

NextHost ==
  \/ StartTrading
  \/ StopTrading
  \/ TradingEffect
  \/ \E id \in TimerIds : TimerFires(id)
  \/ \E cfg \in TradeIntervals : SetTradeInterval(cfg)
  \/ InvocationCompletes

SpecHost == InitHost /\ [][NextHost]_vars

\* ------------------------ interval controls (GlobalBotControls, part_002)

\* parseInt of a field that holds no number; the numbers entered are not negative
NaN == 0 - 1

IsNaN(x) == x = NaN

\* JavaScript <, > and >= on numbers: false as soon as one side is NaN
Lt(a, b) == ~IsNaN(a) /\ ~IsNaN(b) /\ a < b
Gt(a, b) == ~IsNaN(a) /\ ~IsNaN(b) /\ a > b
Ge(a, b) == ~IsNaN(a) /\ ~IsNaN(b) /\ a >= b

\* parseInt(fixedValue), parseInt(minValue), parseInt(maxValue)
FixedInputs == {NaN, 0, 1, 300, 301}
MinInputs == {NaN, 0, 1}
MaxInputs == {NaN, 1, 300, 301}

\* fixed < 1 || fixed > 300 || isNaN(fixed)
FixedRejected(fixed) == Lt(fixed, 1) \/ Gt(fixed, 300) \/ IsNaN(fixed)

\* range check that lets an empty or inverted range through
RandomRejected_unordered(min, max) ==
  Lt(min, 1) \/ Gt(max, 300) \/ IsNaN(min) \/ IsNaN(max)

\* min < 1 || max > 300 || min >= max || isNaN(min) || isNaN(max)
RandomRejected(min, max) ==
  Lt(min, 1) \/ Gt(max, 300) \/ Ge(min, max) \/ IsNaN(min) \/ IsNaN(max)

\* applyIntervalUpdate(mode, fixed, min, max): stopTrading() on a rejected
\* value, setTradeIntervalConfig({ mode, fixed, min, max }) otherwise
ApplyIntervalUpdate(mode, fixed, min, max) ==
  IF (mode = "fixed" /\ FixedRejected(fixed)) \/ (mode = "random" /\ RandomRejected(min, max))
    THEN /\ effectRan = isTradingActive
         /\ IF isTradingActive THEN StopTrading ELSE UNCHANGED vars
    ELSE SetTradeInterval([mode |-> mode, fixed |-> fixed, min |-> min, max |-> max])

NextControls ==
  \/ StartTrading
  \/ StopTrading
  \/ TradingEffect
  \/ \E id \in TimerIds : TimerFires(id)
  \/ \E mode \in {"fixed", "random"}, fixed \in FixedInputs, min \in MinInputs, max \in MaxInputs :
       ApplyIntervalUpdate(mode, fixed, min, max)
  \/ InvocationCompletes

SpecControls == InitHost /\ [][NextControls]_vars

\* ------------------- one gated worker after another (worker lifetime)

\* the worker of a started host: trading on, its effect flushed, one worker alive
\* and handling its first invocation message
InitLifetime ==
  /\ \E net \in GateNetworks, pool \in GatePools, bm \in BalanceMaps :
       ctx = [network |-> net, token |-> GateToken, poolId |-> pool, walletBalances |-> bm]
  /\ InitRetryState
  /\ InitGateState
  /\ msgs = <<>>
  /\ inbox = NoMessage
  /\ wpc = "idle"
  /\ wallets = <<>>
  /\ cur = 0
  /\ invoked = <<>>
  /\ isTradingActive = TRUE
  /\ isTradingActiveRef = TRUE
  /\ effectRan = TRUE
  /\ timers = {}
  /\ intervalRef = 0
  /\ workerRef = "live"
  /\ inflight = 1
  /\ tradeInterval = DefaultInterval
  /\ hostNetwork = MainnetBeta
  /\ balances = <<>>
  /\ updateQueue = <<>>
  /\ refreshes = <<>>

\* workerRef.current.terminate(); workerRef.current = null: the worker's module
\* state and whatever it had in flight are gone
WorkerTornDown ==
  /\ workerRef = "live"
  /\ workerRef' = "none"
  /\ inflight' = 0
  /\ pausedWallets' = <<>>
  /\ calls' = <<>>
  /\ msgs' = <<>>
  /\ UNCHANGED <<ctx, retryVars, workerVars, balanceVars, isTradingActive, isTradingActiveRef, effectRan,
                 timers, intervalRef, tradeInterval>>

\* runBotLogic with workerRef.current null: new Worker(...) loads the module
\* anew and receives its first invocation message
WorkerCreated ==
  /\ workerRef = "none"
  /\ workerRef' = RunBotLogic(workerRef, inflight)[1]
  /\ inflight' = RunBotLogic(workerRef, inflight)[2]
  /\ \E net \in GateNetworks, pool \in GatePools, bm \in BalanceMaps :
       ctx' = [network |-> net, token |-> GateToken, poolId |-> pool, walletBalances |-> bm]
  /\ UNCHANGED <<retryVars, gateVars, msgs, workerVars, balanceVars, isTradingActive, isTradingActiveRef,
                 effectRan, timers, intervalRef, tradeInterval>>

NextLifetime ==
  \/ workerRef = "live" /\ NextGate
  \/ WorkerTornDown
  \/ WorkerCreated

SpecLifetime == InitLifetime /\ [][NextLifetime]_vars

\* ------------------- host balance cache (refreshBalance, updateAfterTrade)

MaxTradeCount == 5
MaxQueue == 2
MaxRefreshes == 1

BalanceWallets == {"w1", "w2"}
HostNetworks == {MainnetBeta, Devnet}

\* prev[wallet.toBase58()] || { sol: 0, token: 0, tradeCount: 0 }
NoBalance == [sol |-> 0, token |-> 0, tradeCount |-> 0]
Existing(prev, wallet) == IF wallet \in DOMAIN prev THEN prev[wallet] ELSE NoBalance

\* { ...prev, [wallet.toBase58()]: info }
Put(prev, wallet, info) ==
  [w \in DOMAIN prev \cup {wallet} |-> IF w = wallet THEN info ELSE prev[w]]

\* the payloads the gated worker posts: { wallet, solChange: -amount } after a buy,
\* { wallet, tokenChange: -amount } after a sell
BalanceUpdates ==
  [wallet : BalanceWallets, solChange : {0 - 1}] \cup [wallet : BalanceWallets, tokenChange : {0 - 1}]

\* const { wallet, solChange = 0, tokenChange = 0 } = balanceUpdate
SolChange(bu) == IF "solChange" \in DOMAIN bu THEN bu.solChange ELSE 0
TokenChange(bu) == IF "tokenChange" \in DOMAIN bu THEN bu.tokenChange ELSE 0

\* what connection.getBalance / getTokenAccountBalance answer, in whole units
ChainBalances == {[sol |-> 3, token |-> 2], [sol |-> 2, token |-> 3]}

\* the updater updateAfterTrade hands to setBalances
AddDeltas(prev, u) ==
  Put(prev, u.wallet, [sol |-> Existing(prev, u.wallet).sol + u.solChange,
                       token |-> Existing(prev, u.wallet).token + u.tokenChange,
                       tradeCount |-> Existing(prev, u.wallet).tradeCount + 1])

\* the updater refreshBalance hands to setBalances
SetInfo(prev, u) == Put(prev, u.wallet, u.info)

ApplyUpdater(prev, u) == IF u.kind = "delta" THEN AddDeltas(prev, u) ELSE SetInfo(prev, u)

\* a render runs the queued updaters in order, each on the result of the one before
RECURSIVE ProcessQueue(_, _)
ProcessQueue(prev, queue) ==
  IF queue = <<>> THEN prev ELSE ProcessQueue(ApplyUpdater(prev, Head(queue)), Tail(queue))

\* network === 'mainnet-beta' || tradeCount % 5 === 0
RefreshDue(net, tradeCount) == net = MainnetBeta \/ tradeCount % 5 = 0

\* workerRef.current.onmessage with a balanceUpdate: updateAfterTrade(network, connection, wallet,
\* solChange, tokenChange, tokenAddress). The local `let tradeCount = 0` is assigned inside the
\* updater; setBalances runs an updater during the next render, or at once (eager) when no update
\* is pending, so the test after setBalances reads existing.tradeCount + 1 or still 0.
UpdateAfterTrade(bu, eager) ==
  LET u == [kind |-> "delta", wallet |-> bu.wallet,
            solChange |-> SolChange(bu), tokenChange |-> TokenChange(bu)]
      tradeCount == IF eager THEN Existing(balances, bu.wallet).tradeCount + 1 ELSE 0
  IN  /\ eager => updateQueue = <<>>
      /\ Len(updateQueue) < MaxQueue
      /\ Len(refreshes) < MaxRefreshes
      /\ Existing(ProcessQueue(balances, updateQueue), bu.wallet).tradeCount < MaxTradeCount
      /\ updateQueue' = Append(updateQueue, u)
      /\ refreshes' = IF RefreshDue(hostNetwork, tradeCount)
                        THEN Append(refreshes, bu.wallet)
                        ELSE refreshes
      /\ UNCHANGED <<ctx, retryVars, gateVars, msgs, workerVars, isTradingActive, isTradingActiveRef,
                     effectRan, timers, intervalRef, workerRef, inflight, tradeInterval,
                     hostNetwork, balances>>

\* React renders the provider: balances becomes the result of the queued updaters
Render ==
  /\ updateQueue # <<>>
  /\ balances' = ProcessQueue(balances, updateQueue)
  /\ updateQueue' = <<>>
  /\ UNCHANGED <<ctx, retryVars, gateVars, msgs, workerVars, isTradingActive, isTradingActiveRef,
                 effectRan, timers, intervalRef, workerRef, inflight, tradeInterval,
                 hostNetwork, refreshes>>

Without(seq, i) == SubSeq(seq, 1, i - 1) \o SubSeq(seq, i + 1, Len(seq))

\* refreshBalance after both RPC answers: info = { sol, token, tradeCount: 0 } replaces the entry
RefreshBalance(i, chain) ==
  /\ i \in 1..Len(refreshes)
  /\ Len(updateQueue) < MaxQueue
  /\ updateQueue' = Append(updateQueue,
       [kind |-> "set", wallet |-> refreshes[i],
        info |-> [sol |-> chain.sol, token |-> chain.token, tradeCount |-> 0]])
  /\ refreshes' = Without(refreshes, i)
  /\ UNCHANGED <<ctx, retryVars, gateVars, msgs, workerVars, isTradingActive, isTradingActiveRef,
                 effectRan, timers, intervalRef, workerRef, inflight, tradeInterval,
                 hostNetwork, balances>>

\* connection.getBalance rejects: refreshBalance ends without touching balances
RefreshRejected(i) ==
  /\ i \in 1..Len(refreshes)
  /\ refreshes' = Without(refreshes, i)
  /\ UNCHANGED <<ctx, retryVars, gateVars, msgs, workerVars, isTradingActive, isTradingActiveRef,
                 effectRan, timers, intervalRef, workerRef, inflight, tradeInterval,
                 hostNetwork, balances, updateQueue>>

InitBalances ==
  /\ ctx = NoContext
  /\ InitRetryState
  /\ InitGateState
  /\ InitWorkerState
  /\ msgs = <<>>
  /\ hostNetwork \in HostNetworks

NextBalances ==
  \/ \E bu \in BalanceUpdates, eager \in BOOLEAN : UpdateAfterTrade(bu, eager)
  \/ Render
  \/ \E i \in 1..MaxRefreshes, chain \in ChainBalances : RefreshBalance(i, chain)
  \/ \E i \in 1..MaxRefreshes : RefreshRejected(i)

SpecBalances == InitBalances /\ [][NextBalances]_vars

\* ---------------------------------------------- properties, retrying build

Active == pc # "idle"

\* the network identifier carries the main-network designation as its prefix
HasMainPrefix(net) == Len(net) >= 7 /\ \A i \in 1..7 : net[i] = Mainnet[i]

\* every venue call that has settled so far failed with AmountTooLow
OnlyAmountTooLow ==
  \A k \in 1..Len(venueCalls) :
    venueCalls[k].outcome = "pending" \/
    (venueCalls[k].outcome = "failed" /\ venueCalls[k].err = ErrAmountTooLow)

\* C1: on a test/dev network, while every venue call fails with AmountTooLow,
\* the amount passed to the venue executor on attempt k is floor(A / 2^(k-1)),
\* and the controller raises only after 3 attempts or when the halved amount
\* would fall below 1 base unit.
C1_HalvedAmounts ==
  (Active /\ ~HasMainPrefix(ctx.network) /\ OnlyAmountTooLow) =>
    /\ \A k \in 1..Len(venueCalls) :
         venueCalls[k].amount = venueCalls[1].amount \div Pow2(k - 1)
    /\ pc = "failed" =>
         \/ Len(venueCalls) = 3
         \/ venueCalls[Len(venueCalls)].amount \div 2 < 1

\* C2: at most 3 venue calls per request; a success is the last venue call and
\* its signature is what buy/sell returns; a request that ends in Failed throws
\* the error of the most recent failed attempt.
C2_BoundedAttempts ==
  Active =>
    /\ Len(venueCalls) <= 3
    /\ \A k \in 1..Len(venueCalls) :
         /\ venueCalls[k].attempt = k
         /\ venueCalls[k].outcome = "pending" => (k = Len(venueCalls) /\ pc = "attempting")
         /\ venueCalls[k].outcome = "ok" =>
              /\ k = Len(venueCalls)
              /\ pc = "success"
              /\ result = [kind |-> "returned", sig |-> k, err |-> NoErr]
    /\ pc = "success" => venueCalls[Len(venueCalls)].outcome = "ok"
    /\ pc = "failed" =>
         /\ venueCalls[Len(venueCalls)].outcome = "failed"
         /\ result = [kind |-> "threw", sig |-> 0, err |-> venueCalls[Len(venueCalls)].err]
    /\ (Len(venueCalls) = 3 /\ venueCalls[3].outcome = "failed") => pc \in {"backoff", "failed"}

C2_Witness ==
  /\ pc = "failed"
  /\ Len(venueCalls) = 3
  /\ venueCalls[2].err # venueCalls[3].err
  /\ result.err = venueCalls[3].err

\* C3: the delay awaited after failed attempt n is 2000, 4000, 8000 ms on a
\* test/dev network and 500, 1000, 2000 ms on the main network; the delays of
\* one request never decrease.
C3_Backoff ==
  Active =>
    /\ Len(delays) <= 3
    /\ \A n \in 1..Len(delays) :
         /\ delays[n].after = n
         /\ venueCalls[n].outcome = "failed"
         /\ delays[n].ms = IF HasMainPrefix(ctx.network)
                             THEN <<500, 1000, 2000>>[n]
                             ELSE <<2000, 4000, 8000>>[n]
         /\ n > 1 => delays[n].ms >= delays[n - 1].ms

C3_Witness ==
  /\ Active
  /\ ctx.network = Devnet
  /\ Len(delays) = 3
  /\ delays[3].ms = 8000

\* C4: the integer amount passed to a venue executor is always > 0.
C4_PositiveAmounts ==
  \A k \in 1..Len(venueCalls) : venueCalls[k].amount > 0

\* C5: the amount handed to the venue executor on the first attempt is
\* a * 10^d rounded to the nearest integer base unit (0.5 with 6 decimals
\* gives 500000); scaled back it differs from a by less than 10^-d.
C5_NearestBaseUnit ==
  (Active /\ Len(venueCalls) >= 1) =>
    LET d == IF "decimals" \in DOMAIN ctx.token THEN ctx.token.decimals ELSE 0
        unit == Pow10(AmountDigits - d)
        r == venueCalls[1].amount
    IN /\ 2 * Abs(r * unit - requested) <= unit
       /\ Abs(r * unit - requested) < unit
       /\ (requested = Half /\ d = 6) => r = 500000

C5_Witness ==
  /\ Active
  /\ Len(venueCalls) >= 1
  /\ requested = 18
  /\ "decimals" \in DOMAIN ctx.token
  /\ ctx.token.decimals = 6
  /\ venueCalls[1].amount = 2

\* C6: a network identifier with the main-network prefix reaches Venue A and
\* never Venue B, every other identifier reaches Venue B and never Venue A, on
\* every attempt and for every side, amount and token.
C6_Routing ==
  Active =>
    \A k \in 1..Len(venueCalls) :
      /\ HasMainPrefix(ctx.network) => venueCalls[k].venue = "A"
      /\ ~HasMainPrefix(ctx.network) => venueCalls[k].venue = "B"
      /\ ctx.network = MainnetBeta => venueCalls[k].venue = "A"
      /\ ctx.network = Devnet => venueCalls[k].venue = "B"

C6_Witness ==
  /\ Active
  /\ ctx.network = MainnetBeta
  /\ Len(venueCalls) = 3
  /\ venueCalls[3].venue = "A"

\* ------------------------------------------------- properties, gated build

\* number of messages of m equal to x
RECURSIVE Count(_, _)
Count(m, x) ==
  IF m = <<>> THEN 0 ELSE (IF m[1] = x THEN 1 ELSE 0) + Count(Tail(m), x)

\* the cached balance of the call's wallet is below what the call requires
Insufficient(c) ==
  /\ c.wallet \in DOMAIN ctx.walletBalances
  /\ IF c.side = "buy"
       THEN ctx.walletBalances[c.wallet].sol < c.amount + Pow10(AmountDigits - 5)
       ELSE ctx.walletBalances[c.wallet].token < c.amount

UpdateOf(c) ==
  [type |-> "balanceUpdate", tag |-> IF c.side = "buy" THEN "solChange" ELSE "tokenChange",
   wallet |-> c.wallet, n |-> 0 - c.amount]

\* C7: a buy whose cached native balance is below amount + fee reserve, or a
\* sell whose cached token balance is below amount, returns undefined without
\* a venue call and without a BalanceUpdate; a request whose cached balance
\* meets the requirement passes the gate and is routed to its venue.
C7_BalanceGate ==
  \A i \in 1..Len(calls) :
    LET c == calls[i] IN
    /\ Insufficient(c) =>
         /\ c.st = "skipped"
         /\ c.venue = "none"
         /\ Count(msgs, UpdateOf(c)) = 0
    /\ ~Insufficient(c) =>
         /\ c.st \in {"venue", "returned", "threw"}
         /\ \/ c.venue \in {"A", "B"}
            \/ (c.st = "threw" /\ c.err = {"poolid required"} /\ ctx.poolId = "" /\ c.pool = "")

C7_Witness ==
  \E i, j \in 1..Len(calls) :
    /\ calls[i].side = "buy"
    /\ calls[i].wallet \in DOMAIN ctx.walletBalances
    /\ ctx.walletBalances[calls[i].wallet].sol = calls[i].amount
    /\ calls[i].st = "skipped"
    /\ calls[j].wallet = calls[i].wallet
    /\ calls[j].side = "sell"
    /\ calls[j].st = "returned"

PauseLogs(m, key) == Count(m, [type |-> "log", tag |-> "paused", wallet |-> key, n |-> 0])

\* C8: a skipped request of a wallet whose paused flag is not set sets the flag
\* and emits exactly one pause log; a skipped request of a wallet whose flag is
\* set emits no pause log and leaves the flag set.
C8_Latch ==
  [][(Len(calls') = Len(calls) + 1 /\ calls'[Len(calls')].st = "skipped") =>
       LET key == calls'[Len(calls')].wallet
           was == key \in DOMAIN pausedWallets /\ pausedWallets[key]
       IN /\ key \in DOMAIN pausedWallets'
          /\ pausedWallets'[key]
          /\ PauseLogs(msgs', key) = PauseLogs(msgs, key) + (IF was THEN 0 ELSE 1)]_vars

C8_Witness ==
  \E i, j \in 1..Len(calls) :
    /\ i < j
    /\ calls[i].wallet = calls[j].wallet
    /\ calls[i].st = "skipped"
    /\ calls[j].st = "skipped"
    /\ PauseLogs(msgs, calls[i].wallet) = 1
    /\ pausedWallets[calls[i].wallet]

\* C9: a set paused flag is cleared only by a successful trade of that wallet:
\* after a skipped request of a wallet, its flag stays set for as long as no
\* later request of that wallet has succeeded.
C9_ClearedOnlyOnSuccess ==
  \A i \in 1..Len(calls) :
    (/\ calls[i].st = "skipped"
     /\ \A j \in 1..Len(calls) :
          (j # i /\ calls[j].wallet = calls[i].wallet) => calls[j].st \in {"skipped", "threw"})
    => (calls[i].wallet \in DOMAIN pausedWallets /\ pausedWallets[calls[i].wallet])

\* C10: every successful trade has exactly one BalanceUpdate of its wallet
\* carrying minus its amount (buy: solChange, sell: tokenChange), posted once
\* the venue call has returned; skipped, pending and failed trades have none.
C10_BalanceUpdates ==
  /\ \A i \in 1..Len(calls) :
       Count(msgs, UpdateOf(calls[i])) =
         Cardinality({j \in 1..Len(calls) :
                        /\ calls[j].st = "returned"
                        /\ calls[j].wallet = calls[i].wallet
                        /\ calls[j].side = calls[i].side
                        /\ calls[j].amount = calls[i].amount})
  /\ Cardinality({k \in 1..Len(msgs) : msgs[k].type = "balanceUpdate"}) =
       Cardinality({j \in 1..Len(calls) : calls[j].st = "returned"})

C10_Witness ==
  \E i, j \in 1..Len(calls) :
    /\ calls[i].st = "returned"
    /\ calls[i].side = "sell"
    /\ calls[j].st = "threw"
    /\ calls[j].venue = "A"
    /\ Count(msgs, UpdateOf(calls[i])) = 1

\* C11: a buy of a wallet whose paused flag is set makes no venue call while
\* the cached native balance is below amount + fee reserve; such a buy reaches
\* a venue only when the cached balance is at least amount + fee reserve.
C11_PausedBuysBlocked ==
  [][(/\ Len(calls') = Len(calls) + 1
      /\ calls'[Len(calls')].side = "buy"
      /\ calls'[Len(calls')].wallet \in DOMAIN pausedWallets
      /\ pausedWallets[calls'[Len(calls')].wallet]) =>
       LET c == calls'[Len(calls')]
           cached == c.wallet \in DOMAIN ctx.walletBalances
           short == cached /\ ctx.walletBalances[c.wallet].sol < c.amount + Pow10(AmountDigits - 5)
       IN /\ short => (c.st = "skipped" /\ c.venue = "none")
          /\ c.venue # "none" =>
               (cached => ctx.walletBalances[c.wallet].sol >= c.amount + Pow10(AmountDigits - 5))]_vars

\* a buy skipped in an invocation that emitted no pause log for its wallet: the
\* wallet was paused before, and a later invocation's buy of it went through
C11_Witness ==
  \E i \in 1..Len(calls) :
    /\ calls[i].side = "buy"
    /\ calls[i].st = "skipped"
    /\ ctx.walletBalances[calls[i].wallet].sol = calls[i].amount
    /\ PauseLogs(msgs, calls[i].wallet) = 0
    /\ pausedWallets[calls[i].wallet]

\* ------------------------------------------------ properties, message handler

\* the handler got past compilation, initialization and both early returns
ReachedStrategy == wpc # "idle" /\ inbox.setup = "ok" /\ inbox.code = "ok" /\ wallets # <<>>

\* C12: in per-bot mode the strategy is invoked once for every loaded wallet, in
\* input order, whichever invocations throw; each throw is logged once with the
\* address of the wallet it belongs to, and the handler's step after a throw
\* leaves the trades, the paused flags and the context of all wallets untouched.
C12_PerBotIsolation ==
  /\ []((ReachedStrategy /\ inbox.mode = "per-bot") =>
          /\ Len(invoked) <= Len(LoadWallets(inbox.bots))
          /\ (wpc = "done" => Len(invoked) = Len(LoadWallets(inbox.bots)))
          /\ \A i \in 1..Len(invoked) :
               /\ invoked[i].kind = "per-bot"
               /\ invoked[i].wallet = LoadWallets(inbox.bots)[i]
               /\ Count(msgs, [type |-> "log", tag |-> "error-in-bot",
                               wallet |-> LoadWallets(inbox.bots)[i], n |-> 0])
                    = IF invoked[i].st = "threw" THEN 1 ELSE 0)
  /\ [][(wpc = "running" /\ wpc' # "idle" /\ invoked' # invoked) =>
          /\ calls' = calls
          /\ pausedWallets' = pausedWallets
          /\ ctx' = ctx
          /\ (wpc' = "running" =>
                /\ Len(invoked') = Len(invoked) + 1
                /\ invoked'[Len(invoked')].st = "pending")]_vars

C12_Witness ==
  /\ inbox.mode = "per-bot"
  /\ wpc = "done"
  /\ Len(invoked) = 3
  /\ invoked[1].st = "resolved"
  /\ invoked[2].st = "threw"
  /\ invoked[3].st = "resolved"
  /\ \E i, j \in 1..Len(calls) :
       /\ calls[i].wallet = invoked[1].wallet /\ calls[i].st = "returned"
       /\ calls[j].wallet = invoked[3].wallet /\ calls[j].st = "returned"

\* C13: in per-bot mode every trade that is still in flight was started by the
\* invocation of the wallet the loop is at: the invocation for wallet i+1
\* begins only after every trade started by wallet i's invocation has resolved.
C13_StrictlySequential ==
  (ReachedStrategy /\ inbox.mode = "per-bot" /\ invoked # <<>>) =>
    \A k \in 1..Len(calls) :
      calls[k].st = "venue" => calls[k].wallet = invoked[Len(invoked)].wallet

\* C14: inside one invocation no wallet has two trades outstanding at the same
\* time, whatever the strategy does.
C14_OneOutstandingPerWallet ==
  wpc # "idle" =>
    \A a, b \in 1..Len(calls) :
      (a # b /\ calls[a].st = "venue" /\ calls[b].st = "venue") =>
        calls[a].wallet # calls[b].wallet

\* C15: in group mode with at least one loaded wallet the strategy is invoked
\* exactly once, with one sub-context per loaded wallet in input order whose
\* buy/sell trade as that wallet; when the invocation throws the handler ends
\* with one group error log, no second invocation and no per-bot recovery.
C15_GroupMode ==
  (ReachedStrategy /\ inbox.mode = "group") =>
    /\ Len(invoked) = 1
    /\ invoked[1].kind = "group"
    /\ Len(invoked[1].bots) = Len(LoadWallets(inbox.bots))
    /\ \A i \in 1..Len(invoked[1].bots) :
         /\ invoked[1].bots[i].wallet = LoadWallets(inbox.bots)[i]
         /\ invoked[1].bots[i].api = invoked[1].bots[i].wallet
    /\ \A k \in 1..Len(calls) :
         \E i \in 1..Len(invoked[1].bots) : calls[k].wallet = invoked[1].bots[i].wallet
    /\ (invoked[1].st = "pending") = (wpc = "running")
    /\ Count(msgs, [type |-> "log", tag |-> "error-in-group", wallet |-> "", n |-> 0])
         = IF invoked[1].st = "threw" THEN 1 ELSE 0
    /\ \A i \in 1..Len(msgs) : msgs[i].tag # "error-in-bot"

C15_Witness ==
  /\ inbox.mode = "group"
  /\ wpc = "done"
  /\ Len(invoked) = 1
  /\ invoked[1].st = "threw"
  /\ Len(invoked[1].bots) = 3
  /\ \E k \in 1..Len(calls) :
       calls[k].wallet = invoked[1].bots[3].wallet /\ calls[k].st = "returned"

\* number of { error } messages among m
Errors(m) == Cardinality({i \in 1..Len(m) : m[i].type = "error"})

\* number of log messages with the given tag among m
Tagged(m, tag) == Cardinality({i \in 1..Len(m) : m[i].type = "log" /\ m[i].tag = tag})

\* C16: when the strategy source fails to compile, or throws while it is run
\* once to fill the export slot, the handler ends without invoking the strategy
\* for any wallet and without a venue call, emits exactly one { error }, and
\* its log names a compile failure in the first case and an initialization
\* failure in the second.
C16_CompileInitFatal ==
  (wpc # "idle" /\ inbox.setup = "ok" /\ inbox.code \in {"syntaxError", "initThrows"}) =>
    /\ wpc = "done"
    /\ invoked = <<>>
    /\ calls = <<>>
    /\ Errors(msgs) = 1
    /\ Tagged(msgs, "compile-failed") = (IF inbox.code = "syntaxError" THEN 1 ELSE 0)
    /\ Tagged(msgs, "init-failed") = (IF inbox.code = "initThrows" THEN 1 ELSE 0)

C16_Witness ==
  /\ wpc = "done"
  /\ inbox.setup = "ok"
  /\ inbox.code = "initThrows"
  /\ Len(wallets) = 3
  /\ msgs[Len(msgs)].type = "error"

\* C17: an exception reaching the handler's outer catch ends the invocation
\* with the log of its message, then the log of its stack when it has one, then
\* one { error } as the last message; no invocation emits more than one
\* { error }, and an { error } is always the last message of its invocation.
C17_TopLevelCatch ==
  wpc # "idle" =>
    /\ Errors(msgs) <= 1
    /\ (Errors(msgs) = 1 => (wpc = "done" /\ msgs[Len(msgs)].type = "error"))
    /\ (inbox.setup # "ok" =>
          LET n == Len(msgs)
          IN /\ wpc = "done"
             /\ n >= 3
             /\ msgs[n] = [type |-> "error", tag |-> "unhandled", wallet |-> "", n |-> 0]
             /\ Errors(msgs) = 1
             /\ Tagged(msgs, "unhandled") = 1
             /\ IF inbox.setup = "throws"
                  THEN /\ msgs[n - 1].type = "log" /\ msgs[n - 1].tag = "stack"
                       /\ msgs[n - 2].type = "log" /\ msgs[n - 2].tag = "unhandled"
                  ELSE /\ msgs[n - 1].type = "log" /\ msgs[n - 1].tag = "unhandled"
                       /\ Tagged(msgs, "stack") = 0)

C17_Witness ==
  /\ wpc = "done"
  /\ inbox.setup = "throws"
  /\ inbox.code = "ok"
  /\ Len(inbox.bots) = 3
  /\ Tagged(msgs, "stack") = 1
  /\ Errors(msgs) = 1

\* C18: a buy/sell of the retrying build throws an error that is not an
\* AmountTooLow failure to its caller only after three venue calls have been
\* made and have failed; while attempts remain the caller has observed nothing.
C18_ErrorsAfterThreeAttempts ==
  Active =>
    /\ (pc \in {"attempting", "backoff"} => result.kind # "threw")
    /\ (result.kind = "threw" /\ ~("amount" \in result.err /\ "too low" \in result.err)) =>
         /\ pc = "failed"
         /\ Len(venueCalls) = 3
         /\ \A i \in 1..3 : venueCalls[i].outcome = "failed"
         /\ venueCalls[3].err = result.err

C18_Witness ==
  /\ pc = "failed"
  /\ result.kind = "threw"
  /\ result.err = ErrPoolNotFound
  /\ Len(venueCalls) = 3
  /\ venueCalls[1].err = ErrNoQuote
  /\ venueCalls[2].err = ErrSlippageTooLow

\* C19: when the source compiles and initializes but exports no function named
\* strategy, the invocation ends with the `no strategy` log as its last
\* message, without an { error }, a strategy invocation or a venue call.
C19_NoStrategyExported ==
  (wpc # "idle" /\ inbox.setup = "ok" /\ inbox.code = "noExport") =>
    /\ wpc = "done"
    /\ msgs[Len(msgs)] = [type |-> "log", tag |-> "no-strategy", wallet |-> "", n |-> 0]
    /\ Errors(msgs) = 0
    /\ invoked = <<>>
    /\ calls = <<>>

C19_Witness ==
  /\ wpc = "done"
  /\ inbox.code = "noExport"
  /\ inbox.mode = "group"
  /\ Len(wallets) = 3
  /\ Tagged(msgs, "no-strategy") = 1

\* the bots list of the message holds no entry that loads as a wallet
NoUsableWallets == wpc # "idle" /\ LoadWallets(inbox.bots) = <<>>

\* C20 as stated: an invocation with no usable wallets produces a log, invokes
\* the strategy in neither mode, and results in no venue call, no BalanceUpdate
\* and no { error }.
C20_NoWalletsNoError ==
  NoUsableWallets =>
    /\ \E i \in 1..Len(msgs) : msgs[i].type = "log"
    /\ invoked = <<>>
    /\ calls = <<>>
    /\ \A i \in 1..Len(msgs) : msgs[i].type # "balanceUpdate"
    /\ Errors(msgs) = 0

\* C20 amended: an invocation with no usable wallets ends after logging,
\* invokes the strategy in neither mode and results in no venue call and no
\* BalanceUpdate; it emits no { error } exactly when the context setup
\* succeeds and the source compiles and initializes, and then a source that
\* exports a strategy gets the `no bots` log as the last message.
C20_NoWalletsNoWork ==
  NoUsableWallets =>
    /\ wpc = "done"
    /\ \E i \in 1..Len(msgs) : msgs[i].type = "log"
    /\ invoked = <<>>
    /\ calls = <<>>
    /\ \A i \in 1..Len(msgs) : msgs[i].type # "balanceUpdate"
    /\ (Errors(msgs) = 0) =
         (inbox.setup = "ok" /\ inbox.code \notin {"syntaxError", "initThrows"})
    /\ (inbox.setup = "ok" /\ inbox.code = "ok") =>
         msgs[Len(msgs)] = [type |-> "log", tag |-> "no-bots", wallet |-> "", n |-> 0]

C20_Witness ==
  /\ wpc = "done"
  /\ inbox.bots = <<"bad">>
  /\ inbox.mode = "group"
  /\ inbox.setup = "ok"
  /\ inbox.code = "ok"
  /\ Tagged(msgs, "no-bots") = 1
  /\ Tagged(msgs, "failed-to-load") = 1

\* the secret key is one Keypair.fromSecretKey accepts
Loadable(sk) == PublicKeyOf(sk) # ""

FlagOf(pw, key) == IF key \in DOMAIN pw THEN <<pw[key]>> ELSE <<>>

\* C22: a request of the gated API and the settling of its venue call (skip,
\* failure or success) leave the paused flag of every other wallet as it was,
\* and touch no retry state; no step of a retried trade touches a paused flag;
\* and every trade request of the retrying API starts from attempt 0, the
\* initial backoff of its network, no recorded error or delay, and the amount
\* built from its own request.
C22_NoSharedCorruption ==
  [][/\ \A i \in 1..Len(calls') :
          (i > Len(calls) \/ calls'[i] # calls[i]) =>
            /\ \A k \in (DOMAIN pausedWallets \cup DOMAIN pausedWallets') \ {calls'[i].wallet} :
                 FlagOf(pausedWallets', k) = FlagOf(pausedWallets, k)
            /\ UNCHANGED retryVars
     /\ (pc' # pc \/ venueCalls' # venueCalls) => UNCHANGED gateVars
     /\ (pc = "idle" /\ pc' = "attempting") =>
          /\ attempt' = 0
          /\ delayMs' = (IF HasMainPrefix(ctx.network) THEN 500 ELSE 2000)
          /\ lastErr' = {}
          /\ delays' = <<>>
          /\ Len(venueCalls') = 1
          /\ amountBn' = (2 * requested' + Pow10(AmountDigits - 6)) \div (2 * Pow10(AmountDigits - 6))
          /\ venueCalls'[1].amount = amountBn'
          /\ ("amountBn" \in DOMAIN fn' => fn'.amountBn = amountBn')
    ]_vars

C22_Witness ==
  /\ pc = "attempting"
  /\ attempt = 0
  /\ requested = 5
  /\ "w1" \in DOMAIN pausedWallets /\ pausedWallets["w1"]
  /\ "w2" \in DOMAIN pausedWallets /\ ~pausedWallets["w2"]
  /\ \E i \in 1..Len(calls) : calls[i].wallet = "w2" /\ calls[i].st = "threw"
  /\ \E i \in 1..Len(calls) : calls[i].wallet = "w1" /\ calls[i].st = "skipped"

\* ------------------------------------------------ properties, host scheduler

\* C23: the worker never has more than one invocation message it has not
\* completed: the host posts no invocation message between posting one and
\* the completion of that invocation.
C23_OneInvocationInFlight == inflight <= 1

\* C24: an invocation message is posted only while trading is started (after
\* stopTrading none is posted until startTrading: a timer that fires does
\* nothing); the trading effect that follows stopTrading clears the pending
\* timer, terminates the worker and drops it, and the effect of the next start
\* creates a new worker and posts to it.
C24_StopHaltsScheduling ==
  [][/\ inflight' > inflight => isTradingActiveRef
     /\ (effectRan /\ ~effectRan') =>
          /\ workerRef' = "none"
          /\ inflight' = 0
          /\ timers' = {}
          /\ intervalRef' = 0
     /\ (~isTradingActiveRef /\ ~isTradingActiveRef') =>
          /\ inflight' <= inflight
          /\ workerRef' \in {workerRef, "none"}
          /\ timers' \subseteq timers
     /\ (~effectRan /\ effectRan') =>
          /\ workerRef = "none"
          /\ workerRef' = "live"
          /\ inflight' = 1
    ]_vars

C24_Witness ==
  /\ ~isTradingActive
  /\ ~isTradingActiveRef
  /\ effectRan
  /\ timers = {}
  /\ workerRef = "live"
  /\ inflight = 2

\* C25: the paused flags outlive the invocation: a new invocation message to
\* the same worker leaves every flag as it was, so a skip of a wallet paused
\* in an earlier invocation emits no second pause log; a flag disappears only
\* in the step in which the host tears the worker down, which drops them all.
C25_FlagsOutliveInvocation ==
  [][/\ (workerRef = "live" /\ workerRef' = "live" /\ ctx' # ctx) =>
          pausedWallets' = pausedWallets
     /\ (\E k \in DOMAIN pausedWallets : k \notin DOMAIN pausedWallets') =>
          (workerRef = "live" /\ workerRef' = "none")
     /\ (workerRef = "live" /\ workerRef' = "none") => pausedWallets' = <<>>
     /\ (/\ Len(calls') = Len(calls) + 1
         /\ calls'[Len(calls')].st = "skipped"
         /\ calls'[Len(calls')].wallet \in DOMAIN pausedWallets
         /\ pausedWallets[calls'[Len(calls')].wallet]) =>
          /\ PauseLogs(msgs', calls'[Len(calls')].wallet) = PauseLogs(msgs, calls'[Len(calls')].wallet)
          /\ pausedWallets'[calls'[Len(calls')].wallet]
    ]_vars

C25_Witness ==
  /\ workerRef = "live"
  /\ Len(calls) = 2
  /\ calls[1].wallet = "w1" /\ calls[1].st = "skipped" /\ calls[1].side = "sell"
  /\ calls[2].wallet = "w1" /\ calls[2].st = "skipped" /\ calls[2].side = "sell"
  /\ "w1" \in DOMAIN pausedWallets /\ pausedWallets["w1"]
  /\ PauseLogs(msgs, "w1") = 0

\* C26: no buy or sell, whatever its outcome, changes the context snapshot of
\* the invocation, so within one invocation two requests of the same wallet,
\* side and amount get the same gate decision: a completed buy does not lower
\* the cached balance the next buy is gated with.
C26_ContextReadOnly ==
  /\ [][(calls' # calls /\ Len(calls') >= Len(calls) /\ Len(calls) > 0) => ctx' = ctx]_vars
  /\ [](\A i, j \in 1..Len(calls) :
          (/\ calls[i].wallet = calls[j].wallet
           /\ calls[i].side = calls[j].side
           /\ calls[i].amount = calls[j].amount) =>
             ((calls[i].st = "skipped") = (calls[j].st = "skipped")))

C26_Witness ==
  /\ Len(calls) = 2
  /\ calls[1].wallet = calls[2].wallet
  /\ calls[1].wallet \in DOMAIN ctx.walletBalances
  /\ calls[1].side = "buy" /\ calls[2].side = "buy"
  /\ calls[1].amount = calls[2].amount
  /\ calls[1].st = "returned"
  /\ calls[2].st = "venue"
  /\ ctx.walletBalances[calls[1].wallet].sol < 2 * calls[1].amount + Fee

\* C27 (as stated): every failed attempt that is not halved, an AmountTooLow
\* failure with nothing left to halve included, goes on to backoff and retry
\* while fewer than 3 attempts were made; Failed is entered only with 3 attempts.
C27_FailedOnlyAtCap == pc = "failed" => Len(venueCalls) = 3

\* C27 (amended): a failure that is not AmountTooLow goes on to backoff, and
\* the backoff is followed by a retry while fewer than 3 attempts were made; an
\* AmountTooLow failure whose callable has no amount above 1 base unit left to
\* halve ends the request as Failed at once, without backoff; Failed is entered
\* in no other way than at 3 attempts or through such a failure.
C27_FailedAtCapOrUnhalvable ==
  /\ [][(pc = "attempting" /\ pc' \notin {"attempting", "success"}) =>
          LET e == lastErr'
              tooLow == "amount" \in e /\ "too low" \in e
              unhalvable == "amountBn" \notin DOMAIN fn \/ fn.amountBn <= 1
          IN /\ ~tooLow => pc' = "backoff"
             /\ (tooLow /\ unhalvable) => (pc' = "failed" /\ delays' = delays)
             /\ (tooLow /\ ~unhalvable) => pc' = "backoff"]_vars
  /\ [][(pc = "backoff" /\ pc' # "backoff") =>
          IF attempt + 1 < 3 THEN pc' = "attempting" /\ Len(venueCalls') = Len(venueCalls) + 1
                             ELSE pc' = "failed"]_vars
  /\ [](pc = "failed" =>
          \/ Len(venueCalls) = 3 /\ attempt = 3
          \/ /\ "amount" \in lastErr /\ "too low" \in lastErr
             /\ "amountBn" \notin DOMAIN fn \/ fn.amountBn <= 1
             /\ Len(delays) = Len(venueCalls) - 1)

C27_Witness ==
  /\ pc = "failed"
  /\ fn.venue = "B"
  /\ fn.amountBn = 1
  /\ Len(venueCalls) = 2
  /\ venueCalls[1].err = ErrAmountTooLow
  /\ lastErr = ErrAmountTooLow
  /\ Len(delays) = 1

\* C28: the controller does not depend on the venue. A request of at least 2
\* base units whose attempts all fail with AmountTooLow makes, on Venue A as on
\* Venue B, the attempts the halving rule gives for that amount: a second one
\* after the first halving, and a third one when the halved amount is still
\* above 1 base unit.
C28_VenueAgnostic ==
  (/\ pc = "failed"
   /\ amountBn >= 2
   /\ \A i \in 1..Len(venueCalls) :
        "amount" \in venueCalls[i].err /\ "too low" \in venueCalls[i].err)
  => Len(venueCalls) = (IF amountBn \div 2 > 1 THEN 3 ELSE 2)

\* C29: buy/sell returns a signature only for a transaction whose confirmation
\* reported success; a confirmation reporting an on-chain error makes the
\* executor raise, so the request never ends as Success.
C29_SignatureMeansConfirmed ==
  result.kind = "returned" =>
    steps[Len(steps)] = [op |-> "confirm", res |-> "ok"]

\* C30: Venue A awaits quote, build, sign, submit, confirm strictly in that
\* order, each request only after the earlier ones produced what it needs: no
\* build request after a missing quote, nothing signed or submitted after a
\* missing transaction, and no signature before the confirmation wait is over.
C30_JupiterOrder ==
  (Len(steps) > 0 /\ steps[1].op = "quote") =>
    /\ \A i \in 1..Len(steps) :
         steps[i].op = <<"quote", "build", "sign", "submit", "blockhash", "confirm">>[i]
    /\ \A i \in 1..(Len(steps) - 1) : steps[i].res = "ok"
    /\ steps[1].res \in {"none", "error"} => (epc.at = "threw" /\ epc.err = ErrNoQuote)
    /\ (Len(steps) = 2 /\ steps[2].res = "none") => (epc.at = "threw" /\ epc.err = ErrNoTransaction)
    /\ (epc.at = "returned" \/ result.kind = "returned") =>
         (Len(steps) = 6 /\ steps[6].op = "confirm" /\ steps[6].res \in {"ok", "err"})

C30_Witness ==
  /\ fn.venue = "A"
  /\ pc = "backoff"
  /\ steps = <<[op |-> "quote", res |-> "ok"], [op |-> "build", res |-> "none"]>>
  /\ lastErr = ErrNoTransaction
  /\ Len(venueCalls) = 2
  /\ venueCalls[1].err = ErrNoQuote

C32_RuntimeErrorLogsOnly ==
  /\ [][(wpc = "running" /\ wpc' # "idle" /\ invoked' # invoked)
          => /\ \A i \in (Len(msgs) + 1)..Len(msgs') : msgs'[i].type = "log"
             /\ wpc' \in {"running", "done"}
             /\ wpc' = "running" <=> (inbox.mode = "per-bot" /\ cur < Len(wallets))]_vars
  /\ [](\A i \in 1..Len(msgs) :
          msgs[i].type = "error" =>
            /\ inbox.setup # "ok" \/ inbox.code \in {"syntaxError", "initThrows"}
            /\ invoked = <<>>
            /\ wpc = "done")

C32_Witness ==
  /\ wpc = "done"
  /\ inbox.mode = "per-bot"
  /\ Len(invoked) = 2
  /\ invoked[1].st = "threw"
  /\ invoked[2].st = "resolved"
  /\ \E i \in 1..Len(calls) : calls[i].st = "threw" /\ calls[i].wallet = invoked[1].wallet
  /\ \A i \in 1..Len(msgs) : msgs[i].type # "error"
  /\ \E i \in 1..Len(msgs) : msgs[i].tag = "error-in-bot"

\* C33: a buy or sell of a wallet without a cached balance entry is never
\* skipped, whatever its amount, and leaves the wallet's paused flag cleared:
\* it passes the gate and goes to its venue (on Venue B a request for which
\* neither the options nor the context name a pool raises after the gate).
C33_NoEntryNoGate ==
  /\ [](\A i \in 1..Len(calls) :
          calls[i].wallet \notin DOMAIN ctx.walletBalances =>
            /\ calls[i].st # "skipped"
            /\ calls[i].wallet \in DOMAIN pausedWallets
            /\ pausedWallets[calls[i].wallet] = FALSE
            /\ calls[i].venue = "none" =>
                 /\ ~StartsWith(ctx.network, Mainnet)
                 /\ ctx.poolId = ""
                 /\ calls[i].st = "threw"
                 /\ calls[i].err = {"poolid required"})
  /\ [][(Len(calls') = Len(calls) + 1
           /\ calls'[Len(calls')].wallet \notin DOMAIN ctx.walletBalances
           /\ (StartsWith(ctx.network, Mainnet) \/ ctx.poolId # ""))
          => (calls'[Len(calls')].st = "venue" /\ calls'[Len(calls')].venue \in {"A", "B"})]_vars

C33_Witness ==
  /\ "w2" \notin DOMAIN ctx.walletBalances
  /\ Len(calls) = 2
  /\ calls[1].wallet = "w2" /\ calls[1].side = "buy" /\ calls[1].amount = 2 * Half
  /\ calls[2].wallet = "w2" /\ calls[2].side = "sell" /\ calls[2].amount = 2 * Half
  /\ calls[1].st = "returned"
  /\ calls[2].st = "venue"
  /\ pausedWallets["w2"] = FALSE

\* the cached balance the gate compares a call with: the native balance for a
\* buy, the token balance for a sell, nothing for a wallet without an entry
CachedFor(c) ==
  IF c.wallet \notin DOMAIN ctx.walletBalances THEN <<>>
  ELSE IF c.side = "buy" THEN <<ctx.walletBalances[c.wallet].sol>>
  ELSE <<ctx.walletBalances[c.wallet].token>>

\* C34: the paused flag does not block a trade. Whether a request is skipped is
\* decided by its side, its amount and the wallet's cached balance alone: a
\* request of a paused wallet whose cached balance suffices passes the gate and
\* clears the flag, and requests of equal side, amount and cached balance are
\* skipped or passed alike whatever the flags of their wallets.
C34_FlagNeverBlocks ==
  /\ [][Len(calls') = Len(calls) + 1 =>
          LET c == calls'[Len(calls')]
              short == /\ c.wallet \in DOMAIN ctx.walletBalances
                       /\ IF c.side = "buy"
                            THEN ctx.walletBalances[c.wallet].sol < c.amount + Pow10(AmountDigits - 5)
                            ELSE ctx.walletBalances[c.wallet].token < c.amount
          IN /\ (c.st = "skipped") = short
             /\ ~short => (/\ c.wallet \in DOMAIN pausedWallets'
                           /\ pausedWallets'[c.wallet] = FALSE
                           /\ c.venue \in {"A", "B"} \/ c.err = {"poolid required"})]_vars
  /\ [](\A i, j \in 1..Len(calls) :
          (/\ calls[i].side = calls[j].side
           /\ calls[i].amount = calls[j].amount
           /\ CachedFor(calls[i]) = CachedFor(calls[j]))
          => ((calls[i].st = "skipped") = (calls[j].st = "skipped")))

\* a wallet paused by a skipped sell whose next request, a buy its cached
\* balance covers, is at the venue
C34_Witness ==
  /\ Len(calls) = 2
  /\ calls[1].wallet = calls[2].wallet
  /\ calls[1].side = "sell" /\ calls[1].st = "skipped"
  /\ calls[2].side = "buy" /\ calls[2].st = "venue"
  /\ Len(msgs) > 0
  /\ \E k \in 1..Len(msgs) : msgs[k].tag = "paused" /\ msgs[k].wallet = calls[1].wallet
  /\ pausedWallets[calls[1].wallet] = FALSE

\* C35: after the entries that do not load are dropped, the i-th remaining
\* wallet is paired with the trade API built for it: the n-th per-bot
\* invocation is for the n-th loadable entry and is handed that wallet's API,
\* every trade it makes is made as that wallet, and each sub-context of a group
\* invocation holds a wallet together with that wallet's API.
C35_WalletApiPairing ==
  /\ [](\A n \in 1..Len(invoked) :
          LET inv == invoked[n]
              loaded == LoadWallets(inbox.bots)
          IN IF inv.kind = "per-bot"
               THEN /\ n <= Len(loaded)
                    /\ inv.wallet = loaded[n]
                    /\ inv.wallet = PublicKeyOf(inbox.bots[CHOOSE p \in 1..Len(inbox.bots) :
                           /\ PublicKeyOf(inbox.bots[p]) # ""
                           /\ Cardinality({q \in 1..p : PublicKeyOf(inbox.bots[q]) # ""}) = n])
                    /\ inv.api = inv.wallet
               ELSE /\ Len(inv.bots) = Len(loaded)
                    /\ \A i \in 1..Len(inv.bots) :
                         inv.bots[i].wallet = loaded[i] /\ inv.bots[i].api = inv.bots[i].wallet)
  /\ [][(wpc = "running" /\ Len(calls') = Len(calls) + 1 /\ invoked[Len(invoked)].kind = "per-bot")
          => calls'[Len(calls')].wallet = invoked[Len(invoked)].wallet]_vars

C35_Witness ==
  /\ inbox.bots = <<"k1", "bad", "k2">>
  /\ inbox.mode = "per-bot"
  /\ wpc = "running"
  /\ Len(invoked) = 2
  /\ invoked[2].wallet = "w2"
  /\ invoked[2].api = "w2"
  /\ Len(calls) = 2
  /\ calls[1].wallet = "w1"
  /\ calls[2].wallet = "w2" /\ calls[2].st = "venue"

\* C36: at most one scheduling timeout is pending at any time, and it is the
\* one intervalRef refers to; a timeout that fires is gone and posts at most one
\* invocation message, so no second timer chain ever runs beside the first.
C36_OneTimerPending ==
  /\ [](Cardinality(timers) <= 1 /\ \A x \in timers : x.id = intervalRef)
  /\ [][/\ inflight' <= inflight + 1
        /\ (\E x \in timers : x \notin timers') =>
             (Cardinality(timers') <= 1 /\ \A x \in timers' : x \notin timers)]_vars

C36_Witness ==
  /\ isTradingActive
  /\ effectRan
  /\ tradeInterval = [DefaultInterval EXCEPT !.mode = "random", !.max = 300]
  /\ Cardinality(timers) = 1
  /\ \E x \in timers : x.ms = 150500
  /\ inflight = 3

\* C37: the stored trade interval is always usable: in fixed mode its value is
\* a number from 1 to 300, in random mode 1 <= min < max <= 300, and every
\* pending timeout was armed with a delay of 1 to 300 seconds that in random
\* mode lies between min and max; a rejected value leaves the stored interval
\* as it was and stops trading.
C37_IntervalWithinBounds ==
  /\ [](/\ tradeInterval.mode = "fixed" =>
             (tradeInterval.fixed # 0 - 1 /\ tradeInterval.fixed >= 1 /\ tradeInterval.fixed <= 300)
        /\ tradeInterval.mode = "random" =>
             /\ tradeInterval.min # 0 - 1 /\ tradeInterval.max # 0 - 1
             /\ tradeInterval.min >= 1
             /\ tradeInterval.min < tradeInterval.max
             /\ tradeInterval.max <= 300
        /\ \A x \in timers :
             /\ x.ms >= 1000 /\ x.ms <= 300000
             /\ tradeInterval.mode = "fixed" => x.ms = tradeInterval.fixed * 1000
             /\ tradeInterval.mode = "random" =>
                  (x.ms >= tradeInterval.min * 1000 /\ x.ms <= tradeInterval.max * 1000))
  /\ [][\A mode \in {"fixed", "random"}, fixed \in FixedInputs, min \in MinInputs, max \in MaxInputs :
          (/\ IF mode = "fixed"
                THEN fixed = 0 - 1 \/ fixed < 1 \/ fixed > 300
                ELSE min = 0 - 1 \/ max = 0 - 1 \/ min < 1 \/ max > 300 \/ min >= max
           /\ ApplyIntervalUpdate(mode, fixed, min, max))
          => (/\ tradeInterval' = tradeInterval
              /\ ~isTradingActive'
              /\ ~isTradingActiveRef')]_vars

C37_Witness ==
  /\ tradeInterval = [mode |-> "random", fixed |-> 301, min |-> 1, max |-> 300]
  /\ ~isTradingActive
  /\ effectRan
  /\ workerRef = "live"
  /\ \E x \in timers : x.ms = 150500

\* ---------------------------------------------- properties, host balance cache

\* the cache entry of a wallet once the queued updaters have run
CachedAfter(bal, queue, wallet) == Existing(ProcessQueue(bal, queue), wallet)

\* C38: for each BalanceUpdate the host adds the reported deltas (a missing delta as 0) to that
\* wallet's cached balance and counts one more trade, and it starts a re-fetch of the wallet's
\* balance after the trade exactly when the network is the main network or the trade is the 5th,
\* 10th, ... one counted in the cache since the last re-fetch
C38_ReconcileAndRefetchEveryFifth ==
  [][\A bu \in BalanceUpdates :
       LET u == [kind |-> "delta", wallet |-> bu.wallet,
                 solChange |-> IF "solChange" \in DOMAIN bu THEN bu.solChange ELSE 0,
                 tokenChange |-> IF "tokenChange" \in DOMAIN bu THEN bu.tokenChange ELSE 0]
           before == CachedAfter(balances, updateQueue, bu.wallet)
           after == CachedAfter(balances', updateQueue', bu.wallet)
       IN  updateQueue' = Append(updateQueue, u) =>
             /\ after = [sol |-> before.sol + u.solChange,
                         token |-> before.token + u.tokenChange,
                         tradeCount |-> before.tradeCount + 1]
             /\ \A w \in BalanceWallets \ {bu.wallet} :
                  CachedAfter(balances', updateQueue', w) = CachedAfter(balances, updateQueue, w)
             /\ IF hostNetwork = MainnetBeta \/ after.tradeCount % 5 = 0
                  THEN refreshes' = Append(refreshes, bu.wallet)
                  ELSE refreshes' = refreshes]_vars

====
